---- MODULE Spec2Model ----
(***************************************************************************)
(* staticrouted: the route reconciliation daemon (src/staticrouted.c) and  *)
(* the staticroute editing tool (src/staticroute.c).                       *)
(*                                                                         *)
(* The daemon is single threaded: dynamic_store_changed() runs one         *)
(* setup_routes_for_service() pass per affected service, and a pass holds  *)
(* the preferences lock from its first to its last statement, so a pass is *)
(* one action.  The tool's add_route()/delete_route() take the same lock   *)
(* around their read-modify-write, so each is one action too.              *)
(*                                                                         *)
(* Spec leaves the run loop out and lets a pass be called for any service *)
(* at any time (every such call can be provoked by touching a watched key  *)
(* of the service); SpecAgg is the run loop: dynamic_store_changed() with  *)
(* its set of services, for a fixed configuration; SpecLedger is Spec for *)
(* two destinations, with the results the kernel commands reported kept   *)
(* on record from pass to pass.  SpecDatabase is Spec with preferences     *)
(* that may fail to lock or to read; SpecWake is the run loop together     *)
(* with the tool, under the fairness of the run loop; SpecTool is the tool *)
(* alone, from its command line; SpecStart is the start of the daemon     *)
(* over the stores it can find; SpecPrefs is Spec with every operation of *)
(* the tool and the calls each process makes on the preferences;           *)
(* SpecHandler is the handler called with keys of any form; SpecRecord is  *)
(* Spec with state records that have neither Router nor NetworkSignature;  *)
(* SpecQuiet is the run loop with a batch queued and nothing changing      *)
(* outside; SpecBoth is Spec with two configured services.  SpecResolver,  *)
(* SpecRoute and SpecParse apply one function each to the inputs it can be *)
(* given: the gateway resolver, the route mutator and the destination      *)
(* parser.                                                                 *)
(*                                                                         *)
(* An optional value (a CoreFoundation reference that may be NULL) is a    *)
(* sequence of length 0 or 1.                                              *)
(***************************************************************************)
EXTENDS Integers, Sequences, FiniteSets, Bags, TLC

\* ------------------------------------------------------------------ bounds
MaxRoutes == 2      \* longest desired-route list of a service
MaxPending == 4     \* most changed keys waiting for the run loop
MaxTokens == 2      \* most tokens of a NetworkSignature given to the resolver on its own
MaxOver == 2        \* how far below 0 and above 128 the prefixes given to the parser go

\* ------------------------------------------------------------ basic values
None == <<>>
Some(v) == <<v>>
IsSome(o) == Len(o) = 1
Get(o) == o[1]

NULL == "<NULL>"

\* CFDictionary operations on a function from keys to values.
EmptyDict == <<>>
CFDictionaryRemoveValue(d, k) == [x \in (DOMAIN d) \ {k} |-> d[x]]
CFDictionarySetValue(d, k, v) == [x \in (DOMAIN d) \cup {k} |-> IF x = k THEN v ELSE d[x]]
\* "add if absent": a key that is already present keeps its old value
CFDictionaryAddValue(d, k, v) == IF k \in DOMAIN d THEN d ELSE CFDictionarySetValue(d, k, v)

\* ------------------------------------------------------ the modelled world
\* Service identifiers that occur in store paths.  Only s1 is a network service
\* of the current set (the tool can name it); s2 stands for any other
\* identifier that shows up in a changed path.
ServiceIDs == {"s1", "s2"}
NetworkServices == [s1 |-> "Ethernet"]          \* serviceID -> UserDefinedName
ServiceOrder == <<"s1">>
ServiceNames == {"ETHERNET", "Wi-Fi"}
CaseFold(str) == IF str = "ETHERNET" THEN "Ethernet" ELSE str

\* struct destination as parse_dest() leaves it: family, address bytes in
\* network order, prefix length.
Dest4 == [af |-> "AF_INET", ip |-> <<10, 0, 0, 0>>, prefix_len |-> 24]
Dest4b == [af |-> "AF_INET", ip |-> <<192, 168, 5, 0>>, prefix_len |-> 24]
Dest6 == [af |-> "AF_INET6",
          ip |-> <<253, 0, 0, 0, 0, 0, 0, 0, 0, 0, 0, 0, 0, 0, 0, 0>>,
          prefix_len |-> 8]
Dests == {Dest4, Dest4b, Dest6}

\* Per-family state records of the dynamic store (State:/Network/Service/<id>/<family>).
\* A NetworkSignature is the text of its "name=value" tokens, joined by ';'.
Token(n, v) == [name |-> n, value |-> v]
RECURSIVE NetworkSignatureFrom(_, _)
NetworkSignatureFrom(tokens, n) ==
    IF n > Len(tokens) THEN ""
    ELSE (IF n > 1 THEN ";" ELSE "") \o tokens[n].name \o "=" \o tokens[n].value
         \o NetworkSignatureFrom(tokens, n + 1)
NetworkSignature(tokens) == NetworkSignatureFrom(tokens, 1)
StateRecord(router, sig) == [Router |-> router, NetworkSignature |-> sig]
\* A state record with neither Router nor NetworkSignature (one that holds,
\* say, only Addresses).
BareRecord == StateRecord(NULL, None)
StateRecords(family) ==
    IF family = "IPv4"
    THEN {StateRecord("192.168.1.1", None),
          StateRecord(NULL, Some(NetworkSignature(
                                   <<Token("IPv4.RouterHardwareAddress", "00:11"),
                                     Token("IPv4.Router", "192.168.1.254")>>)))}
    ELSE {StateRecord("fe80::1", None)}

VARIABLES
    staticRoutes,        \* prefs value of kRoutesKey: None or Some(serviceID -> list of routes)
    activeStaticRoutes,  \* dynamic store: serviceID -> None or Some(key -> route info)
    serviceState,        \* dynamic store: serviceID -> family -> None or Some(record)
    started,             \* the daemon has registered its notification keys
    changedKeys,         \* changed watched keys not yet delivered to the daemon
    inHandler,           \* dynamic_store_changed() is running
    services,            \* its CFSet of service identifiers still to be installed
    batch,               \* history: the changedKeys argument of the running handler
    calls,               \* history: bag of setup_routes_for_service calls it made
    last,                \* history: trace of the pass just run, None once a store changed
    crud,                \* history: result of the tool operation just run; the pass that follows a
                         \* successful deletion for its service keeps it, any other step clears it
    ledger,              \* history: serviceID -> routes whose latest reported kernel result installed them
    arg,                 \* the input of a function taken on its own, None in the other specifications
    result               \* what the function made of arg, None before it ran

vars == <<staticRoutes, activeStaticRoutes, serviceState, started, changedKeys,
          inHandler, services, batch, calls, last, crud, ledger, arg, result>>

\* ------------------------------------------------- addresses as text, keys
HexDigits == <<"0", "1", "2", "3", "4", "5", "6", "7",
               "8", "9", "a", "b", "c", "d", "e", "f">>

RECURSIVE Hex(_)
Hex(n) == IF n < 16 THEN HexDigits[n + 1]
          ELSE Hex(n \div 16) \o HexDigits[(n % 16) + 1]

Groups(ip) == [i \in 1..8 |-> ip[2 * i - 1] * 256 + ip[2 * i]]

RECURSIVE ZeroRun(_, _)
ZeroRun(g, i) == IF i > Len(g) \/ g[i] # 0 THEN 0 ELSE 1 + ZeroRun(g, i + 1)

RECURSIVE JoinGroups(_, _, _)
JoinGroups(g, from, to) ==
    IF from > to THEN ""
    ELSE IF from = to THEN Hex(g[from])
    ELSE Hex(g[from]) \o ":" \o JoinGroups(g, from + 1, to)

\* inet_ntop(): dotted decimal for AF_INET; for AF_INET6 the hexadecimal
\* groups with the first longest run of two or more zero groups written "::".
inet_ntop(af, ip) ==
    IF af = "AF_INET"
    THEN ToString(ip[1]) \o "." \o ToString(ip[2]) \o "." \o
         ToString(ip[3]) \o "." \o ToString(ip[4])
    ELSE LET g == Groups(ip)
             best == CHOOSE n \in 0..8 :
                        /\ \E i \in 1..8 : ZeroRun(g, i) = n
                        /\ \A i \in 1..8 : ZeroRun(g, i) <= n
             start == CHOOSE i \in 1..8 :
                        /\ ZeroRun(g, i) = best
                        /\ \A j \in 1..(i - 1) : ZeroRun(g, j) < best
         IN  IF best < 2 THEN JoinGroups(g, 1, 8)
             ELSE JoinGroups(g, 1, start - 1) \o "::" \o JoinGroups(g, start + best, 8)

\* The tool's switch on dest.af.
AddressFamilyName(af) ==
    IF af = "AF_INET" THEN "IPv4" ELSE IF af = "AF_INET6" THEN "IPv6" ELSE "Unknown"

\* The route dictionary the tool builds for a destination.
BuildRouteDict(dest) ==
    [addressFamily |-> AddressFamilyName(dest.af),
     address       |-> inet_ntop(dest.af, dest.ip),
     prefixLength  |-> dest.prefix_len]

\* The same, computed once for each destination of the model.
RouteDicts == [dest \in Dests |-> BuildRouteDict(dest)]
RouteDict(dest) == RouteDicts[dest]

\* The daemon's key "%@/%@/%@" of a route.
RouteKey(addressFamily, address, prefixLen) ==
    addressFamily \o "/" \o address \o "/" \o ToString(prefixLen)

KeyOf(route) == RouteKey(route.addressFamily, route.address, route.prefixLength)

\* Store paths, as CFStringCreateWithFormat writes them.
StatePath(serviceID, family) == "State:/Network/Service/" \o serviceID \o "/" \o family

\* Mutant: the two arguments of the format are given in the other order.
SetupPath_Swapped(serviceID, family) ==
    "Setup:/Network/Service/" \o family \o "/" \o serviceID

SetupPath(serviceID, family) == "Setup:/Network/Service/" \o serviceID \o "/" \o family
\* Keys that match the two watched patterns.
WatchedKeys == {StatePath("s1", "IPv4"), StatePath("s1", "IPv6"),
                SetupPath("s1", "IPv4"),
                "Setup:/Network/Service/s2",
                "State:/Network/Service/s2/DNS"}

\* ----------------------------------------------------------- Route Mutator
\* How a launched /sbin/route can end, and the status waitpid() stores for
\* it: the exit code in bits 8..15, or the signal in bits 0..6 with bit 7 set
\* if core was dumped.
Exited(code) == [kind |-> "exit", code |-> code]
Killed(sig, core) == [kind |-> "signal", sig |-> sig, core |-> core]
Endings == {Exited(code) : code \in 0..255}
           \cup {Killed(sig, core) : sig \in 1..31, core \in BOOLEAN}
WaitStatus(ending) ==
    IF ending.kind = "exit" THEN ending.code * 256
    ELSE ending.sig + (IF ending.core THEN 128 ELSE 0)
WIFSIGNALED(status) == (status % 128) # 127 /\ (status % 128) # 0
WEXITSTATUS(status) == (status \div 256) % 256

\* posix_spawn() returns 0 and the child ends in some way, or it returns an
\* error number (ENOENT, EAGAIN) and there is no child.  (argv is passed
\* without its terminating NULL, so what the child is given after the router
\* is not determined; every ending is possible.)
ChildOutcomes ==
    {[spawn |-> 0, ending |-> Some(e)] : e \in Endings}
    \cup {[spawn |-> errno, ending |-> None] : errno \in {2, 35}}

\* "int status = 0; waitpid (childPid, &status, 0);".  After a failed spawn
\* childPid is uninitialised: waitpid() fails and leaves status 0, or reaps
\* whatever child the value happens to name.
StatusAfterWait(child) ==
    IF child.spawn = 0 THEN {WaitStatus(Get(child.ending))}
    ELSE {0} \cup {WaitStatus(e) : e \in Endings}

\* do_route(): the set of values it can return for one outcome of the spawn.
\* posix_spawn() reports an error by a positive return value, which the test
\* "< 0" does not catch.
do_route(child) ==
    IF child.spawn < 0 THEN {FALSE}
    ELSE {(IF WIFSIGNALED(status) THEN FALSE
           ELSE IF WEXITSTATUS(status) # 0 THEN FALSE
           ELSE TRUE) : status \in StatusAfterWait(child)}

\* What remove_route()/add_route() can report to the reconciler.
KernelResults == UNION {do_route(child) : child \in ChildOutcomes}

Command(cmd, address, prefixLen, router, ok) ==
    [cmd |-> cmd, address |-> address, prefixLength |-> prefixLen,
     router |-> router, ok |-> ok]

\* -------------------------------------------------------- Gateway Resolver
\* Text is a string; its characters are counted from 1 here, from 0 in the code.
\* The pieces of str between the occurrences of the one-character sep: one
\* more piece than there are occurrences, empty pieces included.
CFStringCreateArrayBySeparatingStrings(str, sep) ==
    LET seps == {i \in 1..Len(str) : SubSeq(str, i, i) = sep}
        starts == {1} \cup {i + 1 : i \in seps}
        ends == seps \cup {Len(str) + 1}
    IN  [k \in 1..Cardinality(starts) |->
           LET start == CHOOSE a \in starts : Cardinality({b \in starts : b < a}) = k - 1
               end == CHOOSE e \in ends : e >= start /\ \A f \in ends : f >= start => e <= f
           IN  SubSeq(str, start, end - 1)]
CFStringHasPrefix(str, prefix) ==
    Len(str) >= Len(prefix) /\ SubSeq(str, 1, Len(prefix)) = prefix
CFStringCreateWithSubstring(str, location, length) ==
    SubSeq(str, location + 1, location + length)

\* Mutant: the substring starts one character early.
RouterOfComponent_OffByOne(component) ==
    CFStringCreateWithSubstring(component, 11, Len(component) - 11)

\* CFRangeMake (12, len - 12): what follows "IPv4.Router=" or "IPv6.Router=".
RouterOfComponent(component) ==
    CFStringCreateWithSubstring(component, 12, Len(component) - 12)

\* The loop over the components of the signature, up to its break.
RECURSIVE FirstRouterToken(_, _, _)
FirstRouterToken(components, n, prefix) ==
    IF n > Len(components) THEN NULL
    ELSE IF CFStringHasPrefix(components[n], prefix) THEN RouterOfComponent(components[n])
    ELSE FirstRouterToken(components, n + 1, prefix)

\* ipv4Router / ipv6Router from a state record that is there.
ResolveRecord(record, family) ==
    IF record.Router # NULL THEN record.Router
    ELSE FirstRouterToken(
             CFStringCreateArrayBySeparatingStrings(Get(record.NetworkSignature), ";"),
             1, family \o ".Router=")

\* The same for the records of the modelled world, worked out once.
ResolvedRouters ==
    [family \in {"IPv4", "IPv6"} |->
       [record \in StateRecords(family) |-> ResolveRecord(record, family)]]

\* ipv4Router / ipv6Router of a pass, from the family's state record.
\* For a record with neither field networkSig is NULL, and
\* CFStringCreateArrayBySeparatingStrings is called with a NULL string, which
\* CoreFoundation does not define: the process ends there on a fault
\* (NullSignature), or the call gives an array without components and the
\* family is left without router.
NullSignature(state) == IsSome(state) /\ Get(state) = BareRecord
ResolveRouter(state, family) ==
    IF ~IsSome(state) \/ NullSignature(state) THEN NULL
    ELSE ResolvedRouters[family][Get(state)]

\* --------------------------------------------------------------- Reconciler
\* The working state of a pass: activeStaticRoutes, inactiveStaticRoutes and
\* the kernel commands issued so far.
\* Mutant: a family without router borrows the router of the other family.
RouterFor_Borrowed(addressFamily, ipv4Router, ipv6Router) ==
    IF addressFamily = "IPv4" THEN (IF ipv4Router # NULL THEN ipv4Router ELSE ipv6Router)
    ELSE IF addressFamily = "IPv6" THEN (IF ipv6Router # NULL THEN ipv6Router ELSE ipv4Router)
    ELSE NULL

RouterFor(addressFamily, ipv4Router, ipv6Router) ==
    IF addressFamily = "IPv4" THEN ipv4Router
    ELSE IF addressFamily = "IPv6" THEN ipv6Router
    ELSE NULL

\* Mutant: the lookup of the old entry never finds it.
OldRouter_NotFound(active, key) == NULL

OldRouter(active, key) ==
    IF key \in DOMAIN active THEN active[key].router ELSE NULL

\* Mutant: the key of the old route stays a candidate for removal.
RemoveOldRoute_KeepsCandidate(st, key, route, oldRouter, ok) ==
    [active   |-> IF ok THEN CFDictionaryRemoveValue(st.active, key) ELSE st.active,
     inactive |-> st.inactive,
     cmds     |-> Append(st.cmds, Command("delete", route.address,
                                          route.prefixLength, oldRouter, ok))]

\* "removing old route": the entry leaves the snapshot only if the kernel
\* command succeeded, and leaves inactiveStaticRoutes either way.
RemoveOldRoute(st, key, route, oldRouter, ok) ==
    [active   |-> IF ok THEN CFDictionaryRemoveValue(st.active, key) ELSE st.active,
     inactive |-> CFDictionaryRemoveValue(st.inactive, key),
     cmds     |-> Append(st.cmds, Command("delete", route.address,
                                          route.prefixLength, oldRouter, ok))]

\* Mutant: the entry is recorded whatever add_route() returned.
AddNewRoute_RecordsAnyway(st, key, route, router, ok) ==
    [active   |-> CFDictionarySetValue(st.active, key,
                     [addressFamily |-> route.addressFamily, address |-> route.address,
                      prefixLength |-> route.prefixLength, router |-> router]),
     inactive |-> CFDictionaryRemoveValue(st.inactive, key),
     cmds     |-> Append(st.cmds, Command("add", route.address,
                                          route.prefixLength, router, ok))]

\* "adding route": on success the entry is added with CFDictionaryAddValue.
AddNewRoute(st, key, route, router, ok) ==
    LET routeInfo == [addressFamily |-> route.addressFamily,
                      address       |-> route.address,
                      prefixLength  |-> route.prefixLength,
                      router        |-> router]
    IN  [active   |-> IF ok THEN CFDictionaryAddValue(st.active, key, routeInfo)
                      ELSE st.active,
         inactive |-> IF ok THEN CFDictionaryRemoveValue(st.inactive, key)
                      ELSE st.inactive,
         cmds     |-> Append(st.cmds, Command("add", route.address,
                                              route.prefixLength, router, ok))]

\* Mutant: a route without gateway takes its key out of the candidates for
\* removal.
RouteStep_SkipKeeps(route, st, ipv4Router, ipv6Router) ==
    LET router    == RouterFor(route.addressFamily, ipv4Router, ipv6Router)
        key       == KeyOf(route)
        oldRouter == OldRouter(st.active, key)
        removed   == IF oldRouter # NULL
                     THEN {RemoveOldRoute(st, key, route, oldRouter, ok) :
                             ok \in KernelResults}
                     ELSE {st}
    IN  IF router = NULL \/ (oldRouter # NULL /\ router = oldRouter)
        THEN {[st EXCEPT !.inactive = CFDictionaryRemoveValue(@, key)]}
        ELSE UNION {{AddNewRoute(s1, key, route, router, ok) : ok \in KernelResults} :
                      s1 \in removed}

\* One iteration of the loop over the desired routes: the working states it
\* can end in, one for each combination of kernel results.
RouteStep(route, st, ipv4Router, ipv6Router) ==
    LET router    == RouterFor(route.addressFamily, ipv4Router, ipv6Router)
        key       == KeyOf(route)
        oldRouter == OldRouter(st.active, key)
        removed   == IF oldRouter # NULL
                     THEN {RemoveOldRoute(st, key, route, oldRouter, ok) :
                             ok \in KernelResults}
                     ELSE {st}
    IN  IF router = NULL THEN {st}
        ELSE IF oldRouter # NULL /\ router = oldRouter
        THEN {[st EXCEPT !.inactive = CFDictionaryRemoveValue(@, key)]}
        ELSE UNION {{AddNewRoute(s1, key, route, router, ok) : ok \in KernelResults} :
                      s1 \in removed}

\* Mutant: the loop ends at the first kernel command that fails.
RECURSIVE RouteLoop_StopsAtFailure(_, _, _, _, _)
RouteLoop_StopsAtFailure(routes, n, st, ipv4Router, ipv6Router) ==
    IF n > Len(routes) \/ (st.cmds # <<>> /\ ~st.cmds[Len(st.cmds)].ok) THEN {st}
    ELSE UNION {RouteLoop_StopsAtFailure(routes, n + 1, s1, ipv4Router, ipv6Router) :
                  s1 \in RouteStep(routes[n], st, ipv4Router, ipv6Router)}

RECURSIVE RouteLoop(_, _, _, _, _)
RouteLoop(routes, n, st, ipv4Router, ipv6Router) ==
    IF n > Len(routes) THEN {st}
    ELSE UNION {RouteLoop(routes, n + 1, s1, ipv4Router, ipv6Router) :
                  s1 \in RouteStep(routes[n], st, ipv4Router, ipv6Router)}

\* Mutant: the entry leaves the snapshot whatever remove_route() returned.
remove_routes_DropsAnyway(key, route, st, ok) ==
    [st EXCEPT !.active = CFDictionaryRemoveValue(@, key),
               !.cmds = Append(@, Command("delete", route.address,
                                          route.prefixLength, route.router, ok))]

\* Mutant: a removed route stays in the snapshot.
remove_routes_KeepsEntry(key, route, st, ok) ==
    [st EXCEPT !.cmds = Append(@, Command("delete", route.address,
                                          route.prefixLength, route.router, ok))]

\* remove_routes(): the applier called for one entry of inactiveStaticRoutes.
remove_routes(key, route, st, ok) ==
    IF {"address", "prefixLength", "router"} \subseteq DOMAIN route
    THEN [st EXCEPT !.active = IF ok THEN CFDictionaryRemoveValue(@, key) ELSE @,
                    !.cmds = Append(@, Command("delete", route.address,
                                               route.prefixLength, route.router, ok))]
    ELSE [st EXCEPT !.active = CFDictionaryRemoveValue(@, key)]

\* Mutant: the candidates for removal are never visited.
ApplyRemoveRoutes_Skipped(inactive, todo, st) == {st}

\* CFDictionaryApplyFunction(inactiveStaticRoutes, remove_routes, &ctx): the
\* entries are visited in an order the dictionary does not specify.
RECURSIVE ApplyRemoveRoutes(_, _, _)
ApplyRemoveRoutes(inactive, todo, st) ==
    IF todo = {} THEN {st}
    ELSE UNION {UNION {ApplyRemoveRoutes(inactive, todo \ {key},
                                         remove_routes(key, inactive[key], st, ok)) :
                         ok \in KernelResults} :
                  key \in todo}

\* The calls a process makes on the preferences, in the order it makes them.
PrefsCall(call, key) == [call |-> call, key |-> key]
PrefsSynchronize == PrefsCall("SCPreferencesSynchronize", "")
PrefsLock == PrefsCall("SCPreferencesLock", "")
PrefsUnlock == PrefsCall("SCPreferencesUnlock", "")
PrefsGetValue(key) == PrefsCall("SCPreferencesGetValue", key)
kRoutesKey == "com.coriolis-systems.StaticRoutes"

\* Every path through setup_routes_for_service() makes the same calls: the
\* two early returns and the end of the function each unlock.
PassCalls == <<PrefsSynchronize, PrefsLock, PrefsGetValue(kRoutesKey), PrefsUnlock>>

\* Mutant: the early return leaves without unlocking.
NoPass_StillLocked(serviceID, orig, db) ==
    [serviceID |-> serviceID, configured |-> FALSE, orig |-> orig,
     active |-> orig, cmds |-> <<>>, persist |-> FALSE,
     db |-> db, locked |-> TRUE, routes |-> <<>>, written |-> <<>>,
     prefs |-> <<PrefsSynchronize, PrefsLock, PrefsGetValue(kRoutesKey)>>]

\* Mutant: the early return persists an empty snapshot.
NoPass_Persists(serviceID, orig, db) ==
    [serviceID |-> serviceID, configured |-> FALSE, orig |-> orig,
     active |-> EmptyDict, cmds |-> <<>>, persist |-> TRUE,
     db |-> db, locked |-> FALSE, routes |-> <<>>,
     written |-> <<[after |-> 0, value |-> EmptyDict]>>, prefs |-> PassCalls]

\* setup_routes_for_service(): every way a pass for serviceID can go from the
\* current state.  persist says whether SCDynamicStoreSetValue was reached,
\* routes is the list of desired routes the call read.
\* db says how the preferences behaved in the call: whether SCPreferencesLock
\* returned true (the code does not look at what it returns) and whether
\* SCPreferencesGetValue could read the routes (it returns NULL if not).
\* locked says whether the call returned with the lock still taken.
\* written lists the calls of SCDynamicStoreSetValue: the value given and
\* the number of kernel commands issued before the call.
\* prefs lists the calls it made on the preferences.
\* NoPass is the trace of a call that returned early, after its
\* SCPreferencesUnlock.
NoPass(serviceID, orig, db) ==
    [serviceID |-> serviceID, configured |-> FALSE, orig |-> orig,
     active |-> orig, cmds |-> <<>>, persist |-> FALSE,
     db |-> db, locked |-> FALSE, routes |-> <<>>, written |-> <<>>,
     prefs |-> PassCalls]

DatabaseOK == [lock |-> TRUE, read |-> TRUE]

\* The process ends on a fault while it resolves the routers: the
\* preferences are locked, no command has been issued and nothing is written.
Faulted(serviceID, orig, db, routes) ==
    [serviceID |-> serviceID, configured |-> TRUE, orig |-> orig,
     active |-> orig, cmds |-> <<>>, persist |-> FALSE,
     db |-> db, locked |-> TRUE, routes |-> routes, written |-> <<>>,
     prefs |-> <<PrefsSynchronize, PrefsLock, PrefsGetValue(kRoutesKey)>>]

\* Mutant: the snapshot is written only if the pass issued a command.
setup_routes_for_service_WritesOnChange(serviceID, db) ==
    IF ~db.read \/ ~IsSome(staticRoutes) THEN {NoPass(serviceID, EmptyDict, db)}
    ELSE IF serviceID \notin DOMAIN Get(staticRoutes)
    THEN {NoPass(serviceID, EmptyDict, db)}
    ELSE
      LET routes == Get(staticRoutes)[serviceID]
          activeStaticRoutesOrig == activeStaticRoutes[serviceID]
          orig == IF IsSome(activeStaticRoutesOrig) THEN Get(activeStaticRoutesOrig)
                  ELSE EmptyDict
          ipv4Router == ResolveRouter(serviceState[serviceID]["IPv4"], "IPv4")
          ipv6Router == ResolveRouter(serviceState[serviceID]["IPv6"], "IPv6")
          st0 == [active |-> orig, inactive |-> orig, cmds |-> <<>>]
          looped == RouteLoop(routes, 1, st0, ipv4Router, ipv6Router)
          done == UNION {ApplyRemoveRoutes(s1.inactive, DOMAIN s1.inactive, s1) :
                           s1 \in looped}
      IN  {[serviceID |-> serviceID, configured |-> TRUE, orig |-> orig,
            active |-> s2.active, cmds |-> s2.cmds, persist |-> s2.cmds # <<>>,
            db |-> db, locked |-> FALSE, routes |-> routes,
            written |-> IF s2.cmds # <<>>
                        THEN <<[after |-> Len(s2.cmds), value |-> s2.active]>>
                        ELSE <<>>,
            prefs |-> PassCalls] : s2 \in done}

\* The pass over a service, from the snapshots that are in the store.
SetupRoutes(serviceID, db, store) ==
    IF ~db.read \/ ~IsSome(staticRoutes) THEN {NoPass(serviceID, EmptyDict, db)}
    ELSE IF serviceID \notin DOMAIN Get(staticRoutes)
    THEN {NoPass(serviceID, EmptyDict, db)}
    ELSE
      LET routes == Get(staticRoutes)[serviceID]
          activeStaticRoutesOrig == store[serviceID]
          orig == IF IsSome(activeStaticRoutesOrig) THEN Get(activeStaticRoutesOrig)
                  ELSE EmptyDict
          ipv4Router == ResolveRouter(serviceState[serviceID]["IPv4"], "IPv4")
          ipv6Router == ResolveRouter(serviceState[serviceID]["IPv6"], "IPv6")
          st0 == [active |-> orig, inactive |-> orig, cmds |-> <<>>]
          looped == RouteLoop(routes, 1, st0, ipv4Router, ipv6Router)
          done == UNION {ApplyRemoveRoutes(s1.inactive, DOMAIN s1.inactive, s1) :
                           s1 \in looped}
      IN  {[serviceID |-> serviceID, configured |-> TRUE, orig |-> orig,
            active |-> s2.active, cmds |-> s2.cmds, persist |-> TRUE,
            db |-> db, locked |-> FALSE, routes |-> routes,
            written |-> <<[after |-> Len(s2.cmds), value |-> s2.active]>>,
            prefs |-> PassCalls] : s2 \in done}
          \cup IF \E f \in {"IPv4", "IPv6"} : NullSignature(serviceState[serviceID][f])
               THEN {Faulted(serviceID, orig, db, routes)}
               ELSE {}

setup_routes_for_service(serviceID, db) ==
    SetupRoutes(serviceID, db, activeStaticRoutes)


\* --------------------------------------------------------- Change Aggregator
\* Mutant: the identifiers are collected in an array, repeats included.
CFSetAddValue_Array(set, value) == set (+) SetToBag({value})

\* CFSetAddValue on the set of service identifiers (a bag whose counts the
\* set semantics keep at one).
CFSetAddValue(set, value) ==
    IF BagIn(value, set) THEN set ELSE set (+) SetToBag({value})

\* The loop of dynamic_store_changed() over changedKeys.
RECURSIVE CollectServices(_, _)
CollectServices(keys, set) ==
    IF keys = {} THEN set
    ELSE LET key == CHOOSE k \in keys : TRUE
             components == CFStringCreateArrayBySeparatingStrings(key, "/")
         IN  CollectServices(keys \ {key},
                             IF Len(components) >= 4
                             THEN CFSetAddValue(set, components[4])
                             ELSE set)

\* SCDynamicStoreCopyKeyList(dynamicStore, "^State:/Network/Service/.*")
StateKeyList ==
    UNION {{StatePath(s, f) : f \in {g \in {"IPv4", "IPv6"} : IsSome(serviceState[s][g])}} :
             s \in ServiceIDs}

\* The Setup: keys the store holds: configd publishes the set-up of every
\* network service of the current set, whether the service is up or not.
SetupKeyList == {SetupPath(s, "IPv4") : s \in DOMAIN NetworkServices}

\* The patterns given to SCDynamicStoreSetNotificationKeys:
\* "^Setup:/Network/Service/.*" and "^State:/Network/Service/.*".
Watched(key) ==
    \/ CFStringHasPrefix(key, "Setup:/Network/Service/")
    \/ CFStringHasPrefix(key, "State:/Network/Service/")

\* A key changed: the store queues it for the daemon if it matches a watched
\* pattern and the daemon has set its notification keys.
Notified(key) ==
    IF started /\ Watched(key) THEN changedKeys \cup {key} ELSE changedKeys

\* ------------------------------------------------------------------ actions
\* The stores outlive the daemon: it can start with no static routes in the
\* preferences and either no snapshot of s1 or one left from an earlier
\* configuration.
LeftOver ==
    LET route == RouteDict(Dest4)
    IN  [k \in {KeyOf(route)} |->
           [addressFamily |-> route.addressFamily, address |-> route.address,
            prefixLength |-> route.prefixLength, router |-> "192.168.1.1"]]

InitStores ==
    /\ staticRoutes = None
    /\ \E snapshot \in {None, Some(LeftOver)} :
          activeStaticRoutes = [s \in ServiceIDs |-> IF s = "s1" THEN snapshot ELSE None]
    /\ serviceState = [s \in ServiceIDs |-> [f \in {"IPv4", "IPv6"} |-> None]]
    /\ started = FALSE
    /\ changedKeys = {}
    /\ inHandler = FALSE
    /\ services = EmptyBag
    /\ batch = {}
    /\ calls = EmptyBag
    /\ last = None
    /\ crud = None
    /\ arg = None
    /\ result = None

Init ==
    /\ InitStores
    /\ ledger = [s \in ServiceIDs |-> {}]

\* main(): set the notification keys and "trigger immediately" with the
\* current State: keys.
main ==
    /\ ~started
    /\ started' = TRUE
    /\ inHandler' = TRUE
    /\ batch' = StateKeyList
    /\ services' = CollectServices(StateKeyList, EmptyBag)
    /\ calls' = EmptyBag
    /\ UNCHANGED <<staticRoutes, activeStaticRoutes, serviceState, changedKeys, last, crud,
                   ledger, arg, result>>

\* dynamic_store_changed(): the run loop delivers the queued keys.
dynamic_store_changed ==
    /\ started /\ ~inHandler
    /\ changedKeys # {}
    /\ inHandler' = TRUE
    /\ batch' = changedKeys
    /\ changedKeys' = {}
    /\ services' = CollectServices(changedKeys, EmptyBag)
    /\ calls' = EmptyBag
    /\ UNCHANGED <<staticRoutes, activeStaticRoutes, serviceState, started, last, crud,
                   ledger, arg, result>>

\* Mutant: the snapshot is kept under the service's own State: path.
DynamicKey_UnderService(serviceID) ==
    "State:/Network/Service/" \o serviceID \o "/StaticRoutes"

\* Mutant: the path of the snapshot is the same for every service.
DynamicKey_Shared(serviceID) == "State:/com.coriolis-systems.StaticRoutes/Service"

\* dynamicKey: the path of the snapshot of a service.
DynamicKey(serviceID) ==
    "State:/com.coriolis-systems.StaticRoutes/Service/" \o serviceID

\* SCDynamicStoreSetValue(dynamicStore, dynamicKey, activeStaticRoutes): the
\* snapshots in the store after the pass.
StoreAfter(store, pass) ==
    IF pass.persist
    THEN [s \in ServiceIDs |->
            IF DynamicKey(s) = DynamicKey(pass.serviceID) THEN Some(pass.active)
            ELSE store[s]]
    ELSE store

\* The effect of one call of setup_routes_for_service(serviceID) on the
\* stores, with its trace.
pass_effect(serviceID, db) ==
    /\ \E pass \in setup_routes_for_service(serviceID, db) :
          /\ activeStaticRoutes' = StoreAfter(activeStaticRoutes, pass)
          /\ changedKeys' = IF pass.persist THEN Notified(DynamicKey(serviceID))
                             ELSE changedKeys
          /\ last' = Some(pass)
    /\ crud' = IF /\ IsSome(crud) /\ ~IsSome(last)
                  /\ Get(crud).op = "delete" /\ Get(crud).ret = 0
                  /\ Get(crud).serviceID = serviceID
               THEN crud ELSE None
    /\ UNCHANGED <<staticRoutes, serviceState>>

\* install_routes(): CFSetApplyFunction calls it once per member, in no
\* specified order; it runs one whole pass.
install_routes(serviceID) ==
    /\ inHandler
    /\ BagIn(serviceID, services)
    /\ services' = services (-) SetToBag({serviceID})
    /\ calls' = calls (+) SetToBag({serviceID})
    /\ pass_effect(serviceID, DatabaseOK)
    /\ UNCHANGED <<started, inHandler, batch, ledger, arg, result>>

\* setup_routes_for_service(serviceID) called on its own.
reconcile(serviceID) ==
    /\ ~started
    /\ pass_effect(serviceID, DatabaseOK)
    /\ UNCHANGED <<started, inHandler, services, batch, calls, ledger, arg, result>>

\* The kernel results a pass reports, applied in order to the routes on
\* record: a successful add puts the route on record, a failed add or a
\* successful delete takes it off.
RouteOf(c) == <<c.address, c.prefixLength, c.router>>
RECURSIVE Reported(_, _, _)
Reported(onRecord, cmds, n) ==
    IF n > Len(cmds) THEN onRecord
    ELSE LET c == cmds[n]
         IN  Reported(IF c.cmd = "add" /\ c.ok THEN onRecord \cup {RouteOf(c)}
                      ELSE IF c.cmd = "add" \/ c.ok THEN onRecord \ {RouteOf(c)}
                      ELSE onRecord,
                      cmds, n + 1)

\* setup_routes_for_service(serviceID) called on its own, its kernel results
\* kept on record.
reconcile_logged(serviceID) ==
    /\ ~started
    /\ pass_effect(serviceID, DatabaseOK)
    /\ ledger' = [ledger EXCEPT ![serviceID] = Reported(@, Get(last').cmds, 1)]
    /\ UNCHANGED <<started, inHandler, services, batch, calls, arg, result>>

\* setup_routes_for_service(serviceID) called on its own, with preferences
\* that may fail to lock or to read.
reconcile_database(serviceID, db) ==
    /\ ~started
    /\ pass_effect(serviceID, db)
    /\ UNCHANGED <<started, inHandler, services, batch, calls, ledger, arg, result>>

\* dynamic_store_changed() returns to the run loop.
handler_return ==
    /\ inHandler
    /\ services = EmptyBag
    /\ inHandler' = FALSE
    /\ batch' = {}
    /\ calls' = EmptyBag
    /\ UNCHANGED <<staticRoutes, activeStaticRoutes, serviceState, started,
                   changedKeys, services, last, crud, ledger, arg, result>>

\* ---------------------------------------------------- destination parser
\* strchr(): position of the first ch in str (from 1), 0 when there is none.
strchr(str, ch) ==
    IF \E i \in 1..Len(str) : SubSeq(str, i, i) = ch
    THEN CHOOSE i \in 1..Len(str) :
            /\ SubSeq(str, i, i) = ch
            /\ \A j \in 1..(i - 1) : SubSeq(str, j, j) # ch
    ELSE 0

DecimalDigits == "0123456789"
LowerHex == "0123456789abcdef"
UpperHex == "0123456789ABCDEF"
isdigit(ch) == strchr(DecimalDigits, ch) # 0
isxdigit(ch) == strchr(LowerHex, ch) # 0 \/ strchr(UpperHex, ch) # 0
isspace(ch) == ch \in {" ", "\t", "\n"}
AllDigits(str) == \A i \in 1..Len(str) : isdigit(SubSeq(str, i, i))
AllHexDigits(str) == \A i \in 1..Len(str) : isxdigit(SubSeq(str, i, i))

RECURSIVE DecimalValue(_)
DecimalValue(str) ==
    IF str = "" THEN 0
    ELSE DecimalValue(SubSeq(str, 1, Len(str) - 1)) * 10
         + strchr(DecimalDigits, SubSeq(str, Len(str), Len(str))) - 1

RECURSIVE HexValue(_)
HexValue(str) ==
    IF str = "" THEN 0
    ELSE LET ch == SubSeq(str, Len(str), Len(str))
             digit == IF strchr(LowerHex, ch) # 0 THEN strchr(LowerHex, ch) - 1
                      ELSE strchr(UpperHex, ch) - 1
         IN  HexValue(SubSeq(str, 1, Len(str) - 1)) * 16 + digit

\* sscanf(text, "%d", &prefix_len).  The library reads white space, a sign
\* and digits, converts them with strtoimax() and stores the result in the
\* int.  A 64-bit magnitude is four 16-bit limbs, least significant first.
Limb == 65536
ZeroLimbs == <<0, 0, 0, 0>>
MulAdd10(m, d) ==
    LET a1 == m.limbs[1] * 10 + d
        a2 == m.limbs[2] * 10 + (a1 \div Limb)
        a3 == m.limbs[3] * 10 + (a2 \div Limb)
        a4 == m.limbs[4] * 10 + (a3 \div Limb)
    IN  [limbs |-> <<a1 % Limb, a2 % Limb, a3 % Limb, a4 % Limb>>,
         over |-> m.over \/ a4 >= Limb]

RECURSIVE Magnitude(_)
Magnitude(digits) ==
    IF digits = "" THEN [limbs |-> ZeroLimbs, over |-> FALSE]
    ELSE MulAdd10(Magnitude(SubSeq(digits, 1, Len(digits) - 1)),
                  DecimalValue(SubSeq(digits, Len(digits), Len(digits))))

\* strtoimax(): the value as 64 bits, INTMAX_MAX or INTMAX_MIN when the
\* digits say more; only its low 32 bits <<low limb, high limb>> are used.
strtoimax(negative, digits) ==
    LET m == Magnitude(digits)
        l == m.limbs
    IN  IF ~negative
        THEN IF m.over \/ l[4] >= 32768 THEN <<65535, 65535>> ELSE <<l[1], l[2]>>
        ELSE IF m.over \/ l[4] > 32768
                \/ (l[4] = 32768 /\ <<l[1], l[2], l[3]>> # <<0, 0, 0>>)
             THEN <<0, 0>>
             ELSE IF l[1] = 0 THEN <<0, (Limb - l[2]) % Limb>>
             ELSE <<Limb - l[1], Limb - 1 - l[2]>>

\* The int that holds 32 given bits.
IntOfBits(low) ==
    IF low[2] >= 32768 THEN (low[2] - Limb) * Limb + low[1] ELSE low[2] * Limb + low[1]

INT_MAX == 2147483647
INT_MIN == -INT_MAX - 1

\* The digits fit an int.
Representable(negative, digits) ==
    LET m == Magnitude(digits)
        l == m.limbs
    IN  /\ ~m.over /\ l[3] = 0 /\ l[4] = 0
        /\ \/ l[2] < 32768
           \/ negative /\ l[2] = 32768 /\ l[1] = 0

\* The outcomes of the conversion: how many items were assigned and the
\* value stored.  For digits that do not fit an int the C standard leaves
\* the behaviour undefined: the library's assignment keeps the low 32 bits
\* of what strtoimax() returned; a conversion that saturates would store
\* INT_MAX or INT_MIN.
sscanf_d(text) ==
    LET start == CHOOSE j \in 1..(Len(text) + 1) :
                    /\ j = Len(text) + 1 \/ ~isspace(SubSeq(text, j, j))
                    /\ \A k \in 1..(j - 1) : isspace(SubSeq(text, k, k))
        signed == start <= Len(text) /\ SubSeq(text, start, start) \in {"+", "-"}
        negative == signed /\ SubSeq(text, start, start) = "-"
        first == IF signed THEN start + 1 ELSE start
        end == CHOOSE j \in first..(Len(text) + 1) :
                  /\ j = Len(text) + 1 \/ ~isdigit(SubSeq(text, j, j))
                  /\ \A k \in first..(j - 1) : isdigit(SubSeq(text, k, k))
        digits == SubSeq(text, first, end - 1)
    IN  IF digits = "" THEN {[count |-> IF start > Len(text) THEN -1 ELSE 0, value |-> 0]}
        ELSE IF Representable(negative, digits)
        THEN {[count |-> 1, value |-> IntOfBits(strtoimax(negative, digits))]}
        ELSE {[count |-> 1, value |-> IntOfBits(strtoimax(negative, digits))],
              [count |-> 1, value |-> IF negative THEN INT_MIN ELSE INT_MAX]}

\* inet_pton(AF_INET, ...): four decimal numbers of at most 255, none with a
\* leading zero, separated by dots.
Octet(str) ==
    /\ Len(str) \in 1..3
    /\ AllDigits(str)
    /\ Len(str) > 1 => SubSeq(str, 1, 1) # "0"
    /\ DecimalValue(str) <= 255
inet_pton4(src) ==
    LET parts == CFStringCreateArrayBySeparatingStrings(src, ".")
    IN  IF Len(parts) = 4 /\ \A i \in 1..4 : Octet(parts[i])
        THEN Some([i \in 1..4 |-> DecimalValue(parts[i])])
        ELSE None

\* inet_pton(AF_INET6, ...): groups of one to four hexadecimal digits
\* separated by colons, "::" at most once for one or more zero groups, the
\* last 32 bits in dotted decimal if wanted.
Group(str) == Len(str) \in 1..4 /\ AllHexDigits(str)
RECURSIVE GroupBytes(_, _, _)
GroupBytes(parts, n, final) ==
    IF n > Len(parts) THEN Some(<<>>)
    ELSE LET rest == GroupBytes(parts, n + 1, final)
         IN  IF ~IsSome(rest) THEN None
             ELSE IF Group(parts[n])
             THEN Some(<<HexValue(parts[n]) \div 256, HexValue(parts[n]) % 256>> \o Get(rest))
             ELSE IF final /\ n = Len(parts) /\ IsSome(inet_pton4(parts[n]))
             THEN inet_pton4(parts[n])
             ELSE None
Colons(src) == IF src = "" THEN <<>> ELSE CFStringCreateArrayBySeparatingStrings(src, ":")
inet_pton6(src) ==
    LET doubles == {i \in 1..(Len(src) - 1) : SubSeq(src, i, i + 1) = "::"}
    IN  IF doubles = {}
        THEN LET all == GroupBytes(Colons(src), 1, TRUE)
             IN  IF IsSome(all) /\ Len(Get(all)) = 16 THEN all ELSE None
        ELSE LET at == CHOOSE i \in doubles : \A j \in doubles : i <= j
                 tail == SubSeq(src, at + 2, Len(src))
                 head == GroupBytes(Colons(SubSeq(src, 1, at - 1)), 1, FALSE)
                 last6 == GroupBytes(Colons(tail), 1, TRUE)
             IN  IF IsSome(head) /\ IsSome(last6) /\ Len(Get(head)) + Len(Get(last6)) < 16
                 THEN Some(Get(head)
                           \o [i \in 1..(16 - Len(Get(head)) - Len(Get(last6))) |-> 0]
                           \o Get(last6))
                 ELSE None
inet_pton(af, src) == IF af = "AF_INET" THEN inet_pton4(src) ELSE inet_pton6(src)

\* A uint32_t is its 32 bits, the most significant first.  The address is
\* memory: bytes in network order.  bigEndian says how the machine lays a
\* uint32_t out in memory.
AllOnes == [i \in 1..32 |-> 1]
ShiftLeft(w, n) == [i \in 1..32 |-> IF i + n <= 32 THEN w[i + n] ELSE 0]
BitAnd(w, mask) == [i \in 1..32 |-> w[i] * mask[i]]
ByteSwap(w) == [i \in 1..32 |-> w[8 * (3 - ((i - 1) \div 8)) + ((i - 1) % 8) + 1]]
OSSwapHostToBigInt32_Same(w, bigEndian) == w
OSSwapHostToBigInt32(w, bigEndian) == IF bigEndian THEN w ELSE ByteSwap(w)
LoadWord(mem, k, bigEndian) ==
    [i \in 1..32 |->
       LET at == (i - 1) \div 8
           byte == IF bigEndian THEN mem[4 * k + 1 + at] ELSE mem[4 * k + 4 - at]
       IN  (byte \div (2 ^ (7 - ((i - 1) % 8)))) % 2]
ByteOf(w, at) ==
    w[8 * at + 1] * 128 + w[8 * at + 2] * 64 + w[8 * at + 3] * 32 + w[8 * at + 4] * 16
    + w[8 * at + 5] * 8 + w[8 * at + 6] * 4 + w[8 * at + 7] * 2 + w[8 * at + 8]
StoreWord(mem, k, w, bigEndian) ==
    [j \in 1..Len(mem) |->
       IF j \in (4 * k + 1)..(4 * k + 4)
       THEN ByteOf(w, IF bigEndian THEN j - 4 * k - 1 ELSE 4 * k + 4 - j)
       ELSE mem[j]]
\* words[k] &= OSSwapHostToBigInt32(mask) and words[k] = 0
AndWord(mem, k, mask, bigEndian) ==
    StoreWord(mem, k,
              BitAnd(LoadWord(mem, k, bigEndian), OSSwapHostToBigInt32(mask, bigEndian)),
              bigEndian)
ZeroWord(mem, k) == [j \in 1..Len(mem) |-> IF j \in (4 * k + 1)..(4 * k + 4) THEN 0 ELSE mem[j]]

\* The AF_INET branch of parse_dest().
parse_dest4(ip, max_prefix, scanned, bigEndian) ==
    LET given == IF max_prefix THEN 32 ELSE scanned
        prefix_len == IF given <= 0 THEN 0 ELSE IF given > 32 THEN 32 ELSE given
        mask == IF given <= 0 THEN [i \in 1..32 |-> 0]
                ELSE ShiftLeft(AllOnes, 32 - prefix_len)
    IN  [af |-> "AF_INET",
         ip |-> AndWord(ip, 0, mask, bigEndian),
         prefix_len |-> prefix_len]

\* The AF_INET6 branch of parse_dest().
parse_dest6(ip, max_prefix, scanned, bigEndian) ==
    LET given == IF max_prefix THEN 128 ELSE scanned
        prefix_len == IF given < 0 THEN 0 ELSE IF given > 128 THEN 128 ELSE given
    IN  [af |-> "AF_INET6",
         ip |-> IF prefix_len = 0
                THEN ZeroWord(ZeroWord(ZeroWord(ZeroWord(ip, 0), 1), 2), 3)
                ELSE IF prefix_len <= 32
                THEN ZeroWord(ZeroWord(ZeroWord(
                        AndWord(ip, 0, ShiftLeft(AllOnes, 32 - prefix_len), bigEndian), 1), 2), 3)
                ELSE IF prefix_len <= 64
                THEN ZeroWord(ZeroWord(
                        AndWord(ip, 1, ShiftLeft(AllOnes, 64 - prefix_len), bigEndian), 2), 3)
                ELSE IF prefix_len <= 96
                THEN ZeroWord(AndWord(ip, 2, ShiftLeft(AllOnes, 96 - prefix_len), bigEndian), 3)
                ELSE AndWord(ip, 3, ShiftLeft(AllOnes, 128 - prefix_len), bigEndian),
         prefix_len |-> prefix_len]

\* parse_dest(): what it returns and the struct destination it leaves, for
\* each outcome of the conversion of the prefix.
ParseFailed == [ok |-> FALSE]
parse_dest(str, bigEndian) ==
    LET ptr == strchr(str, "/")
        scans == IF ptr = 0 THEN {[count |-> 0, value |-> 0]}
                 ELSE sscanf_d(SubSeq(str, ptr + 1, Len(str)))
        pcopy == IF ptr # 0 THEN SubSeq(str, 1, ptr - 1) ELSE str
        v4 == inet_pton("AF_INET", pcopy)
        v6 == inet_pton("AF_INET6", pcopy)
    IN  {IF IsSome(v4)
         THEN [ok |-> TRUE,
               dest |-> parse_dest4(Get(v4), ptr = 0 \/ scan.count # 1, scan.value, bigEndian)]
         ELSE IF IsSome(v6)
         THEN [ok |-> TRUE,
               dest |-> parse_dest6(Get(v6), ptr = 0 \/ scan.count # 1, scan.value, bigEndian)]
         ELSE ParseFailed : scan \in scans}

\* ------------------------------------------------------ the staticroute tool
RECURSIVE service_by_name_from(_, _)
service_by_name_from(serviceName, n) ==
    IF n > Len(ServiceOrder) THEN NULL
    ELSE IF CaseFold(NetworkServices[ServiceOrder[n]]) = CaseFold(serviceName)
    THEN ServiceOrder[n]
    ELSE service_by_name_from(serviceName, n + 1)

\* Mutant: every name finds the first service.
service_by_name_First(serviceName) == ServiceOrder[1]
service_by_name(serviceName) == service_by_name_from(serviceName, 1)

\* The calls of service_by_name() on the preferences: CurrentSet, the set it
\* names, and the entry of each service it looks at, up to the one it finds.
service_by_name_calls(serviceName) ==
    LET found == {n \in 1..Len(ServiceOrder) :
                    CaseFold(NetworkServices[ServiceOrder[n]]) = CaseFold(serviceName)}
        examined == IF found = {} THEN Len(ServiceOrder)
                    ELSE CHOOSE n \in found : \A m \in found : n <= m
    IN  <<PrefsGetValue("CurrentSet"), PrefsGetValue("Sets")>>
        \o [n \in 1..examined |-> PrefsGetValue("NetworkServices")]

\* What a run of the tool did: the operation, the service it found, the
\* route it was given, what it returned and the calls it made on the
\* preferences to lock, unlock and read.
CrudResult(op, serviceID, dest, ret, prefs) ==
    Some([op |-> op, serviceID |-> serviceID, route |-> RouteDict(dest), ret |-> ret,
          prefs |-> prefs])

\* The part of add_route(), delete_route() and list_routes() between
\* SCPreferencesLock and SCPreferencesUnlock, every return inside it included.
LockedRead == <<PrefsLock, PrefsGetValue(kRoutesKey), PrefsUnlock>>

\* SCPreferencesSetValue, CommitChanges, ApplyChanges: the committed value
\* and the return code for each way they can succeed or fail.
Persisted(new, setOK, commitOK) == IF setOK /\ commitOK THEN Some(new) ELSE staticRoutes
ReturnCode(setOK, commitOK, applyOK) == IF setOK /\ commitOK /\ applyOK THEN 0 ELSE 1
SaveOutcomes(new) ==
    {[value |-> Persisted(new, setOK, commitOK),
      ret |-> ReturnCode(setOK, commitOK, applyOK)] :
        setOK \in BOOLEAN, commitOK \in BOOLEAN, applyOK \in BOOLEAN}

\* add_route() of the tool.
tool_add_route(dest, service_name) ==
    LET serviceID == service_by_name(service_name)
        oldStaticRoutes == IF IsSome(staticRoutes) THEN Get(staticRoutes) ELSE EmptyDict
        oldRoutes == IF serviceID \in DOMAIN oldStaticRoutes
                     THEN oldStaticRoutes[serviceID] ELSE <<>>
        routes == Append(oldRoutes, RouteDict(dest))
        new == CFDictionarySetValue(oldStaticRoutes, serviceID, routes)
        storeKey == SetupPath(serviceID, AddressFamilyName(dest.af))
    IN  IF serviceID = NULL
        THEN /\ crud' = CrudResult("add", NULL, dest, 1, service_by_name_calls(service_name))
             /\ last' = None
             /\ UNCHANGED <<staticRoutes, changedKeys>>
        ELSE /\ Len(oldRoutes) < MaxRoutes
             /\ Cardinality(changedKeys \cup {storeKey}) <= MaxPending
             /\ \E save \in SaveOutcomes(new) :
                   /\ staticRoutes' = save.value
                   /\ crud' = CrudResult("add", serviceID, dest, save.ret,
                                         service_by_name_calls(service_name) \o LockedRead)
                   /\ last' = None
             /\ changedKeys' = Notified(storeKey)

\* The search loop of delete_route(): index of the first route with this
\* address (compared case-insensitively) and prefix length, or past the end.
RECURSIVE FindRoute(_, _, _, _)
FindRoute(routes, n, addressString, prefix_len) ==
    IF n > Len(routes) THEN n
    ELSE IF CaseFold(routes[n].address) = CaseFold(addressString)
            /\ routes[n].prefixLength = prefix_len
    THEN n
    ELSE FindRoute(routes, n + 1, addressString, prefix_len)

CFArrayRemoveValueAtIndex(array, n) ==
    [i \in 1..(Len(array) - 1) |-> IF i < n THEN array[i] ELSE array[i + 1]]

\* delete_route() of the tool.
tool_delete_route(dest, service_name) ==
    LET serviceID == service_by_name(service_name)
        storeKey == SetupPath(serviceID, AddressFamilyName(dest.af))
    IN  IF \/ serviceID = NULL
           \/ ~IsSome(staticRoutes)
           \/ serviceID \notin DOMAIN Get(staticRoutes)
        THEN /\ crud' = CrudResult("delete", serviceID, dest, 1,
                                   service_by_name_calls(service_name)
                                   \o IF serviceID = NULL THEN <<>> ELSE LockedRead)
             /\ last' = None
             /\ UNCHANGED <<staticRoutes, changedKeys>>
        ELSE LET oldRoutes == Get(staticRoutes)[serviceID]
                 n == FindRoute(oldRoutes, 1, RouteDict(dest).address, dest.prefix_len)
                 routes == CFArrayRemoveValueAtIndex(oldRoutes, n)
                 new == CFDictionarySetValue(Get(staticRoutes), serviceID, routes)
             IN  IF n > Len(oldRoutes)
                 THEN /\ crud' = CrudResult("delete", serviceID, dest, 1,
                                            service_by_name_calls(service_name)
                                            \o LockedRead)
                      /\ last' = None
                      /\ UNCHANGED <<staticRoutes, changedKeys>>
                 ELSE /\ Cardinality(changedKeys \cup {storeKey}) <= MaxPending
                      /\ \E save \in SaveOutcomes(new) :
                            /\ staticRoutes' = save.value
                            /\ crud' = CrudResult("delete", serviceID, dest, save.ret,
                                                  service_by_name_calls(service_name)
                                                  \o LockedRead)
                            /\ last' = None
                      /\ changedKeys' = Notified(storeKey)

\* Mutant: the tool also clears the snapshots of the routes in force.
add_route_run_ClearsSnapshots(dest, service_name) ==
    /\ tool_add_route(dest, service_name)
    /\ activeStaticRoutes' = [s \in ServiceIDs |-> None]
    /\ UNCHANGED <<serviceState, started, inHandler, services,
                   batch, calls, ledger, arg, result>>

add_route_run(dest, service_name) ==
    /\ tool_add_route(dest, service_name)
    /\ UNCHANGED <<activeStaticRoutes, serviceState, started, inHandler, services,
                   batch, calls, ledger, arg, result>>

delete_route_run(dest, service_name) ==
    /\ tool_delete_route(dest, service_name)
    /\ UNCHANGED <<activeStaticRoutes, serviceState, started, inHandler, services,
                   batch, calls, ledger, arg, result>>

\* list_services(), list_all_routes() and list_routes() of the tool: they
\* print, and change no store.
ListResult(op, serviceID, ret, prefs) ==
    Some([op |-> op, serviceID |-> serviceID, route |-> NULL, ret |-> ret, prefs |-> prefs])
ServiceEntries == [n \in 1..Len(ServiceOrder) |-> PrefsGetValue("NetworkServices")]
list_services ==
    /\ crud' = ListResult("list-services", NULL, 0,
                          <<PrefsLock, PrefsGetValue("CurrentSet"), PrefsGetValue("Sets")>>
                          \o ServiceEntries \o <<PrefsUnlock>>)
    /\ last' = None
    /\ UNCHANGED <<staticRoutes, activeStaticRoutes, serviceState, started, changedKeys,
                   inHandler, services, batch, calls, ledger, arg, result>>
list_all_routes ==
    /\ crud' = ListResult("list", NULL, 0,
                          <<PrefsLock, PrefsGetValue(kRoutesKey)>>
                          \o (IF ~IsSome(staticRoutes) THEN <<>>
                              ELSE <<PrefsGetValue("CurrentSet"), PrefsGetValue("Sets")>>
                                   \o ServiceEntries)
                          \o <<PrefsUnlock>>)
    /\ last' = None
    /\ UNCHANGED <<staticRoutes, activeStaticRoutes, serviceState, started, changedKeys,
                   inHandler, services, batch, calls, ledger, arg, result>>
list_routes(service_name) ==
    LET serviceID == service_by_name(service_name)
    IN  /\ crud' = IF serviceID = NULL
                   THEN ListResult("list", NULL, 1, service_by_name_calls(service_name))
                   ELSE ListResult("list", serviceID, 0,
                                   service_by_name_calls(service_name) \o LockedRead)
        /\ last' = None
        /\ UNCHANGED <<staticRoutes, activeStaticRoutes, serviceState, started,
                       changedKeys, inHandler, services, batch, calls, ledger, arg,
                       result>>

\* --------------------------------------------------------------- environment
\* configd rewrites (or removes) the state record of a family of a service.
service_state_changed(serviceID, family, state) ==
    /\ serviceID \in DOMAIN NetworkServices
    /\ state # serviceState[serviceID][family]
    /\ Cardinality(changedKeys \cup {StatePath(serviceID, family)}) <= MaxPending
    /\ serviceState' = [serviceState EXCEPT ![serviceID][family] = state]
    /\ changedKeys' = Notified(StatePath(serviceID, family))
    /\ last' = None
    /\ crud' = None
    /\ UNCHANGED <<staticRoutes, activeStaticRoutes, started, inHandler, services,
                   batch, calls, ledger, arg, result>>

\* A watched key is touched while the stores stay as they are.
key_changed(key) ==
    /\ started
    /\ key \notin changedKeys
    /\ Cardinality(changedKeys \cup {key}) <= MaxPending
    /\ changedKeys' = changedKeys \cup {key}
    /\ UNCHANGED <<staticRoutes, activeStaticRoutes, serviceState, started, inHandler,
                   services, batch, calls, last, crud, ledger, arg, result>>

Next ==
    \/ \E serviceID \in ServiceIDs : reconcile(serviceID)
    \/ \E dest \in Dests, name \in ServiceNames : add_route_run(dest, name)
    \/ \E dest \in Dests, name \in ServiceNames : delete_route_run(dest, name)
    \/ \E family \in {"IPv4", "IPv6"} :
          \E state \in {None} \cup {Some(r) : r \in StateRecords(family)} :
             service_state_changed("s1", family, state)

Spec == Init /\ [][Next]_vars

\* The run loop, for a configuration that stays as it is.
InitAgg ==
    /\ staticRoutes \in {None,
                          Some([s1 |-> <<RouteDict(Dest4)>>]),
                          Some([s1 |-> <<RouteDict(Dest4), RouteDict(Dest6)>>])}
    /\ activeStaticRoutes = [s \in ServiceIDs |-> None]
    /\ \E r4 \in StateRecords("IPv4") :
          serviceState = [s \in ServiceIDs |->
                            IF s = "s1" THEN [IPv4 |-> Some(r4), IPv6 |-> None]
                            ELSE [IPv4 |-> None, IPv6 |-> None]]
    /\ started = FALSE
    /\ changedKeys = {}
    /\ inHandler = FALSE
    /\ services = EmptyBag
    /\ batch = {}
    /\ calls = EmptyBag
    /\ last = None
    /\ crud = None
    /\ arg = None
    /\ result = None
    /\ ledger = [s \in ServiceIDs |-> {}]

NextAgg ==
    \/ main
    \/ dynamic_store_changed
    \/ \E serviceID \in ServiceIDs : install_routes(serviceID)
    \/ handler_return
    \/ \E key \in WatchedKeys : key_changed(key)

SpecAgg == InitAgg /\ [][NextAgg]_vars

\* Passes with their kernel results kept on record, from stores in which what
\* an earlier run left in the snapshot is on record as installed.
InitLedger ==
    /\ InitStores
    /\ ledger = [s \in ServiceIDs |->
                   IF IsSome(activeStaticRoutes[s])
                   THEN {<<e.address, e.prefixLength, e.router>> :
                           e \in {Get(activeStaticRoutes[s])[k] :
                                    k \in DOMAIN Get(activeStaticRoutes[s])}}
                   ELSE {}]

NextLedger ==
    \/ \E serviceID \in ServiceIDs : reconcile_logged(serviceID)
    \/ \E dest \in {Dest4, Dest6} : add_route_run(dest, "ETHERNET")
    \/ \E dest \in {Dest4, Dest6} : delete_route_run(dest, "ETHERNET")
    \/ \E family \in {"IPv4", "IPv6"} :
          \E state \in {None} \cup {Some(r) : r \in StateRecords(family)} :
             service_state_changed("s1", family, state)

SpecLedger == InitLedger /\ [][NextLedger]_vars

\* The stores empty and the daemon not yet started.
AtRest ==
    /\ staticRoutes = None
    /\ activeStaticRoutes = [s \in ServiceIDs |-> None]
    /\ serviceState = [s \in ServiceIDs |-> [f \in {"IPv4", "IPv6"} |-> None]]
    /\ started = FALSE
    /\ changedKeys = {}
    /\ inHandler = FALSE
    /\ services = EmptyBag
    /\ batch = {}
    /\ calls = EmptyBag
    /\ last = None
    /\ crud = None
    /\ ledger = [s \in ServiceIDs |-> {}]
program == <<staticRoutes, activeStaticRoutes, serviceState, started, changedKeys,
             inHandler, services, batch, calls, last, crud, ledger>>

\* The running daemon and the tool: the run loop with a gateway that stays,
\* while routes are added and deleted.
InitWake ==
    /\ staticRoutes = None
    /\ activeStaticRoutes = [s \in ServiceIDs |-> None]
    /\ serviceState = [s \in ServiceIDs |->
                         IF s = "s1"
                         THEN [IPv4 |-> Some(StateRecord("192.168.1.1", None)),
                               IPv6 |-> None]
                         ELSE [IPv4 |-> None, IPv6 |-> None]]
    /\ started = FALSE
    /\ changedKeys = {}
    /\ inHandler = FALSE
    /\ services = EmptyBag
    /\ batch = {}
    /\ calls = EmptyBag
    /\ last = None
    /\ crud = None
    /\ ledger = [s \in ServiceIDs |-> {}]
    /\ arg = None
    /\ result = None

add_route_running(dest, service_name) ==
    /\ started
    /\ add_route_run(dest, service_name)

delete_route_running(dest, service_name) ==
    /\ started
    /\ delete_route_run(dest, service_name)

NextWake ==
    \/ main
    \/ dynamic_store_changed
    \/ \E serviceID \in ServiceIDs : install_routes(serviceID)
    \/ handler_return
    \/ \E dest \in {Dest4, Dest6} : add_route_running(dest, "ETHERNET")
    \/ \E dest \in {Dest4, Dest6} : delete_route_running(dest, "ETHERNET")

\* The run loop goes on calling the handler while keys are queued, and the
\* handler runs to its end.
RunLoop ==
    /\ WF_vars(main)
    /\ WF_vars(dynamic_store_changed)
    /\ \A serviceID \in ServiceIDs : WF_vars(install_routes(serviceID))
    /\ WF_vars(handler_return)

SpecWake == InitWake /\ [][NextWake]_vars /\ RunLoop

\* Passes over preferences that may fail to lock or to read.
NextDatabase ==
    \/ \E serviceID \in ServiceIDs, db \in [lock : BOOLEAN, read : BOOLEAN] :
          reconcile_database(serviceID, db)
    \/ \E dest \in {Dest4, Dest6} : add_route_run(dest, "ETHERNET")
    \/ \E dest \in {Dest4, Dest6} : delete_route_run(dest, "ETHERNET")
    \/ \E family \in {"IPv4", "IPv6"} :
          \E state \in {None} \cup {Some(r) : r \in StateRecords(family)} :
             service_state_changed("s1", family, state)

SpecDatabase == Init /\ [][NextDatabase]_vars

\* ------------------------------------------------ functions on their own
\* The gateway resolver: a state record of a family with or without Router
\* and with or without a NetworkSignature of up to MaxTokens tokens.  (A
\* record with neither is left out here.)
SignatureTokens ==
    {Token(n, v) : n \in {"IPv4.Router", "IPv6.Router", "IPv4.RouterHardwareAddress"},
                   v \in {"192.168.1.254", "fe80::1"}}
TokenLists == UNION {[1..n -> SignatureTokens] : n \in 0..MaxTokens}
ResolverInputs ==
    {[family |-> f, Router |-> r, tokens |-> t] :
        f \in {"IPv4", "IPv6"}, r \in {NULL, "192.168.1.1"},
        t \in {None} \cup {Some(l) : l \in TokenLists}}
    \ [family : {"IPv4", "IPv6"}, Router : {NULL}, tokens : {None}]
RecordOf(input) ==
    StateRecord(input.Router,
                IF IsSome(input.tokens) THEN Some(NetworkSignature(Get(input.tokens)))
                ELSE None)

InitResolver ==
    /\ AtRest
    /\ arg \in {Some(i) : i \in ResolverInputs}
    /\ result = None

resolve_router ==
    /\ IsSome(arg) /\ ~IsSome(result)
    /\ result' = Some(ResolveRecord(RecordOf(Get(arg)), Get(arg).family))
    /\ UNCHANGED <<program, arg>>

SpecResolver == InitResolver /\ [][resolve_router]_vars

\* The route mutator: one call of remove_route() or add_route() for each
\* outcome of the spawn.
InitRoute ==
    /\ AtRest
    /\ arg \in {Some([cmd |-> cmd, child |-> child]) :
                  cmd \in {"add", "delete"}, child \in ChildOutcomes}
    /\ result = None

apply_route ==
    /\ IsSome(arg) /\ ~IsSome(result)
    /\ \E ok \in do_route(Get(arg).child) : result' = Some(ok)
    /\ UNCHANGED <<program, arg>>

SpecRoute == InitRoute /\ [][apply_route]_vars

\* The destination parser: one call of parse_dest() for an address with or
\* without a prefix, on a machine of either byte order.  The prefixes go
\* from MaxOver below zero to MaxOver above the width of IPv6.
ParseAddresses ==
    {"192.168.5.37", "10.0.0.0", "255.255.255.255",
     "2001:db8::1", "fd00::1", "FFFF:ffff:ffff:ffff:ffff:ffff:ffff:ffff",
     "::ffff:1.2.3.4", "::",
     "10.0.0", "1.2.3.256", "01.2.3.4", "fe80:::1", "12345::", ""}
ParsePrefixes ==
    {""} \cup {"/" \o ToString(p) : p \in (0 - MaxOver)..(128 + MaxOver)}
    \cup {"/", "/abc", "/24abc", "/ 24", "/+8", "/007", "/24/8",
          "/2147483648", "/4294967320", "/-4294967295", "/18446744073709551617"}
InitParse ==
    /\ AtRest
    /\ arg \in {Some([str |-> address \o prefix, bigEndian |-> bigEndian]) :
                  address \in ParseAddresses, prefix \in ParsePrefixes,
                  bigEndian \in BOOLEAN}
    /\ result = None

parse ==
    /\ IsSome(arg) /\ ~IsSome(result)
    /\ \E out \in parse_dest(Get(arg).str, Get(arg).bigEndian) : result' = Some(out)
    /\ UNCHANGED <<program, arg>>

SpecParse == InitParse /\ [][parse]_vars

\* The tool on its own: main() called with "add" or "delete", an address
\* and a service name, one run after the other.
ToolAddresses == {"10.0.0.37/24", "fd00::1/8", "10.0.0", "fd00:::1/8"}
staticroute(command, str, service_name, bigEndian) ==
    /\ arg' = Some([command |-> command, str |-> str, service_name |-> service_name])
    /\ \E out \in parse_dest(str, bigEndian) :
          IF ~out.ok
          THEN /\ result' = Some(1)
               /\ UNCHANGED program
          ELSE /\ \/ command = "add" /\ tool_add_route(out.dest, service_name)
                  \/ command = "delete" /\ tool_delete_route(out.dest, service_name)
               /\ result' = Some(Get(crud').ret)
               /\ UNCHANGED <<activeStaticRoutes, serviceState, started, inHandler,
                              services, batch, calls, ledger>>

InitTool ==
    /\ AtRest
    /\ arg = None
    /\ result = None

NextTool ==
    \E command \in {"add", "delete"}, str \in ToolAddresses,
       service_name \in ServiceNames, bigEndian \in BOOLEAN :
          staticroute(command, str, service_name, bigEndian)

SpecTool == InitTool /\ [][NextTool]_vars

\* The daemon from its start to its first wait: main() with whatever the
\* stores hold when it starts, and no change of a key.
InitStart ==
    /\ staticRoutes \in {None,
                          Some([s1 |-> <<RouteDict(Dest4)>>]),
                          Some([s1 |-> <<RouteDict(Dest4), RouteDict(Dest6)>>])}
    /\ \E snapshot \in {None, Some(LeftOver)} :
          activeStaticRoutes = [s \in ServiceIDs |-> IF s = "s1" THEN snapshot ELSE None]
    /\ \E r4 \in {None} \cup {Some(r) : r \in StateRecords("IPv4")},
          r6 \in {None} \cup {Some(r) : r \in StateRecords("IPv6")},
          other \in {None, Some(StateRecord("192.168.1.1", None))} :
          serviceState = [s \in ServiceIDs |->
                            IF s = "s1" THEN [IPv4 |-> r4, IPv6 |-> r6]
                            ELSE [IPv4 |-> other, IPv6 |-> None]]
    /\ started = FALSE
    /\ changedKeys = {}
    /\ inHandler = FALSE
    /\ services = EmptyBag
    /\ batch = {}
    /\ calls = EmptyBag
    /\ last = None
    /\ crud = None
    /\ arg = None
    /\ result = None
    /\ ledger = [s \in ServiceIDs |-> {}]

NextStart ==
    \/ main
    \/ \E serviceID \in ServiceIDs : install_routes(serviceID)
    \/ handler_return

SpecStart == InitStart /\ [][NextStart]_vars

\* The daemon's passes and every operation of the tool, with preferences
\* that may fail to lock or to read.
NextPrefs ==
    \/ \E serviceID \in ServiceIDs, db \in [lock : BOOLEAN, read : BOOLEAN] :
          reconcile_database(serviceID, db)
    \/ \E dest \in {Dest4, Dest6}, name \in ServiceNames : add_route_run(dest, name)
    \/ \E dest \in {Dest4, Dest6}, name \in ServiceNames : delete_route_run(dest, name)
    \/ list_services
    \/ list_all_routes
    \/ \E name \in ServiceNames : list_routes(name)
    \/ \E state \in {None} \cup {Some(r) : r \in StateRecords("IPv4")} :
          service_state_changed("s1", "IPv4", state)

SpecPrefs == Init /\ [][NextPrefs]_vars

\* The handler on its own: dynamic_store_changed(store, changedKeys, info)
\* called with an array of keys of any form, those of other parts of the store
\* and those too short to name a service included.
ChangedPaths ==
    {StatePath("s1", "IPv4"), SetupPath("s1", "IPv6"),
     "Setup:/Network/Service/s2",
     "State:/Network/Interface/en0/Link",
     "State:/Network/Global/IPv4",
     "State:/Network/Global",
     "com.apple.network"}
CalledIDs == ServiceIDs \cup {"en0", "IPv4"}
dynamic_store_changed_call(keys) ==
    /\ ~inHandler
    /\ inHandler' = TRUE
    /\ batch' = keys
    /\ services' = CollectServices(keys, EmptyBag)
    /\ calls' = EmptyBag
    /\ UNCHANGED <<staticRoutes, activeStaticRoutes, serviceState, started, changedKeys,
                   last, crud, ledger, arg, result>>

NextHandler ==
    \/ \E keys \in SUBSET ChangedPaths :
          Cardinality(keys) <= MaxPending /\ dynamic_store_changed_call(keys)
    \/ \E serviceID \in CalledIDs : install_routes(serviceID)
    \/ handler_return

SpecHandler == InitAgg /\ [][NextHandler]_vars

\* Spec with state records that may have neither Router nor
\* NetworkSignature.
NextRecord ==
    \/ \E serviceID \in ServiceIDs : reconcile(serviceID)
    \/ \E dest \in {Dest4, Dest6} : add_route_run(dest, "ETHERNET")
    \/ \E dest \in {Dest4, Dest6} : delete_route_run(dest, "ETHERNET")
    \/ \E family \in {"IPv4", "IPv6"} :
          \E state \in {None, Some(BareRecord)}
                        \cup {Some(r) : r \in StateRecords(family)} :
             service_state_changed("s1", family, state)

SpecRecord == Init /\ [][NextRecord]_vars

\* The daemon waiting in CFRunLoopRun while a batch of changed keys is
\* queued for it, and nothing outside the daemon changing any more.
InitQuiet ==
    /\ staticRoutes \in {None,
                          Some([s1 |-> <<RouteDict(Dest4)>>]),
                          Some([s1 |-> <<RouteDict(Dest4), RouteDict(Dest6)>>])}
    /\ \E snapshot \in {None, Some(LeftOver)} :
          activeStaticRoutes = [s \in ServiceIDs |-> IF s = "s1" THEN snapshot ELSE None]
    /\ \E r4 \in {None} \cup {Some(r) : r \in StateRecords("IPv4")} :
          serviceState = [s \in ServiceIDs |->
                            IF s = "s1" THEN [IPv4 |-> r4, IPv6 |-> None]
                            ELSE [IPv4 |-> None, IPv6 |-> None]]
    /\ started = TRUE
    /\ changedKeys \in {keys \in SUBSET WatchedKeys :
                          keys # {} /\ Cardinality(keys) <= MaxPending}
    /\ inHandler = FALSE
    /\ services = EmptyBag
    /\ batch = {}
    /\ calls = EmptyBag
    /\ last = None
    /\ crud = None
    /\ arg = None
    /\ result = None
    /\ ledger = [s \in ServiceIDs |-> {}]

NextQuiet ==
    \/ dynamic_store_changed
    \/ \E serviceID \in ServiceIDs : install_routes(serviceID)
    \/ handler_return

SpecQuiet == InitQuiet /\ [][NextQuiet]_vars /\ RunLoop

\* Passes over two services that both have desired routes in the
\* preferences and may both have a snapshot left in the store.
InitBoth ==
    /\ staticRoutes \in {Some([s1 |-> <<RouteDict(Dest4)>>, s2 |-> <<>>]),
                          Some([s1 |-> <<>>, s2 |-> <<RouteDict(Dest4)>>]),
                          Some([s1 |-> <<RouteDict(Dest6)>>, s2 |-> <<RouteDict(Dest4)>>])}
    /\ activeStaticRoutes \in [ServiceIDs -> {None, Some(LeftOver)}]
    /\ \E r4 \in {None} \cup {Some(r) : r \in StateRecords("IPv4")},
          other \in {None} \cup {Some(r) : r \in StateRecords("IPv4")} :
          serviceState = [s \in ServiceIDs |->
                            IF s = "s1" THEN [IPv4 |-> r4, IPv6 |-> None]
                            ELSE [IPv4 |-> other, IPv6 |-> None]]
    /\ started = FALSE
    /\ changedKeys = {}
    /\ inHandler = FALSE
    /\ services = EmptyBag
    /\ batch = {}
    /\ calls = EmptyBag
    /\ last = None
    /\ crud = None
    /\ arg = None
    /\ result = None
    /\ ledger = [s \in ServiceIDs |-> {}]

NextBoth ==
    \/ \E serviceID \in ServiceIDs : reconcile(serviceID)
    \/ \E dest \in {Dest4, Dest6} : add_route_run(dest, "ETHERNET")
    \/ \E dest \in {Dest4, Dest6} : delete_route_run(dest, "ETHERNET")

SpecBoth == InitBoth /\ [][NextBoth]_vars

\* The run loop for two configured services: the daemon waiting while a
\* batch of changed keys is queued for it.
InitOrder ==
    /\ staticRoutes \in {Some([s1 |-> <<RouteDict(Dest4)>>, s2 |-> <<>>]),
                          Some([s1 |-> <<>>, s2 |-> <<RouteDict(Dest4)>>]),
                          Some([s1 |-> <<RouteDict(Dest6)>>, s2 |-> <<RouteDict(Dest4)>>])}
    /\ activeStaticRoutes \in [ServiceIDs -> {None, Some(LeftOver)}]
    /\ \E r4 \in {None} \cup {Some(r) : r \in StateRecords("IPv4")},
          other \in {None} \cup {Some(r) : r \in StateRecords("IPv4")} :
          serviceState = [s \in ServiceIDs |->
                            IF s = "s1" THEN [IPv4 |-> r4, IPv6 |-> None]
                            ELSE [IPv4 |-> other, IPv6 |-> None]]
    /\ started = TRUE
    /\ changedKeys \in {keys \in SUBSET WatchedKeys :
                          keys # {} /\ Cardinality(keys) <= MaxPending}
    /\ inHandler = FALSE
    /\ services = EmptyBag
    /\ batch = {}
    /\ calls = EmptyBag
    /\ last = None
    /\ crud = None
    /\ arg = None
    /\ result = None
    /\ ledger = [s \in ServiceIDs |-> {}]

SpecOrder == InitOrder /\ [][NextQuiet]_vars

\* ===================================================================== claims
\* What the claims speak of, in terms of the stores.
Range(seq) == {seq[i] : i \in DOMAIN seq}
Configured(serviceID) == IsSome(staticRoutes) /\ serviceID \in DOMAIN Get(staticRoutes)
DesiredList(serviceID) ==
    IF Configured(serviceID) THEN Get(staticRoutes)[serviceID] ELSE <<>>
DesiredKeys(serviceID) == {KeyOf(d) : d \in Range(DesiredList(serviceID))}
Occurrences(serviceID, key) ==
    Cardinality({i \in DOMAIN DesiredList(serviceID) : KeyOf(DesiredList(serviceID)[i]) = key})
Gateway(serviceID, family) ==
    IF family \in {"IPv4", "IPv6"}
    THEN ResolveRouter(serviceState[serviceID][family], family)
    ELSE NULL
Snapshot(serviceID) ==
    IF IsSome(activeStaticRoutes[serviceID]) THEN Get(activeStaticRoutes[serviceID])
    ELSE EmptyDict
Entry(route, router) ==
    [addressFamily |-> route.addressFamily, address |-> route.address,
     prefixLength |-> route.prefixLength, router |-> router]
AllOK(cmds) == \A i \in DOMAIN cmds : cmds[i].ok
IsCmd(c, cmd, address, prefixLen, router) ==
    c.cmd = cmd /\ c.address = address /\ c.prefixLength = prefixLen /\ c.router = router
Issued(cmds, cmd, address, prefixLen, router) ==
    {i \in DOMAIN cmds : IsCmd(cmds[i], cmd, address, prefixLen, router)}
CmdsFor(cmds, address, prefixLen) ==
    {i \in DOMAIN cmds : cmds[i].address = address /\ cmds[i].prefixLength = prefixLen}

\* The snapshot the desired list maps to through the current gateways.
ResolvedRoutes(serviceID) ==
    {d \in Range(DesiredList(serviceID)) : Gateway(serviceID, d.addressFamily) # NULL}
TargetSnapshot(serviceID) ==
    [k \in {KeyOf(d) : d \in ResolvedRoutes(serviceID)} |->
       LET d == CHOOSE r \in ResolvedRoutes(serviceID) : KeyOf(r) = k
       IN  Entry(d, Gateway(serviceID, d.addressFamily))]

\* C1: convergence.  A pass over a configured service in which every kernel
\* command succeeds leaves, as the persisted snapshot, exactly the desired
\* routes whose family has a gateway, each with that gateway as router;
\* a further pass right after it leaves the snapshot as it is.
C1_Convergence ==
    [][ \A s \in ServiceIDs :
          (/\ IsSome(last') /\ Get(last').serviceID = s
           /\ Get(last').configured /\ AllOK(Get(last').cmds)) =>
             /\ activeStaticRoutes'[s] = Some(TargetSnapshot(s))'
             /\ (/\ IsSome(last) /\ Get(last).configured /\ AllOK(Get(last).cmds)
                 /\ Get(last).serviceID = s)
                   => activeStaticRoutes' = activeStaticRoutes ]_vars

\* C1 witness: a pass whose commands all succeeded removed and added routes,
\* from a snapshot that was not the target, with a desired route of a family
\* without gateway left out.
C1_Witness ==
    /\ IsSome(last) /\ Get(last).configured /\ AllOK(Get(last).cmds)
    /\ Get(last).orig # EmptyDict
    /\ \E i, j \in DOMAIN Get(last).cmds :
          Get(last).cmds[i].cmd = "delete" /\ Get(last).cmds[j].cmd = "add"
    /\ ResolvedRoutes(Get(last).serviceID) # Range(DesiredList(Get(last).serviceID))
    /\ Snapshot(Get(last).serviceID) = TargetSnapshot(Get(last).serviceID)

\* C2: idempotence.  A pass that directly follows a pass for the same service
\* whose commands all succeeded, with the stores otherwise as they were,
\* issues no kernel command.
C2_Idempotence ==
    [][ (/\ IsSome(last) /\ AllOK(Get(last).cmds)
         /\ IsSome(last') /\ Get(last').serviceID = Get(last).serviceID)
          => Get(last').cmds = <<>> ]_vars

\* C2 witness: a pass without any command over a non-empty snapshot, for a
\* desired list that repeats a route.
C2_Witness ==
    /\ IsSome(last) /\ Get(last).configured /\ Get(last).cmds = <<>>
    /\ Get(last).orig # EmptyDict
    /\ \E key \in DesiredKeys(Get(last).serviceID) :
          Occurrences(Get(last).serviceID, key) > 1

\* A key of the snapshot read by the traced pass whose route is still desired
\* while its family's gateway is now another router.
GatewayChanged(pass, key) ==
    /\ key \in DOMAIN pass.orig
    /\ key \in DesiredKeys(pass.serviceID)
    /\ Gateway(pass.serviceID, pass.orig[key].addressFamily) # NULL
    /\ Gateway(pass.serviceID, pass.orig[key].addressFamily) # pass.orig[key].router

ExactlyOneRemoveThenAdd(pass, key) ==
    LET e == pass.orig[key]
        removes == Issued(pass.cmds, "delete", e.address, e.prefixLength, e.router)
        adds == Issued(pass.cmds, "add", e.address, e.prefixLength,
                       Gateway(pass.serviceID, e.addressFamily))
    IN  /\ Cardinality(removes) = 1
        /\ Cardinality(adds) = 1
        /\ \A i \in removes, j \in adds : i < j

\* C3 as stated: for every key whose gateway changed, the pass issues exactly
\* one Remove with the old router and exactly one Add with the new one, the
\* Remove first.
C3_Original ==
    (IsSome(last) /\ Get(last).configured) =>
        \A key \in DOMAIN Get(last).orig :
            GatewayChanged(Get(last), key) => ExactlyOneRemoveThenAdd(Get(last), key)

\* C3 amended: the same, for a key that occurs once in the desired list or
\* whose kernel commands all succeed in the pass.
C3_GatewayChange ==
    (IsSome(last) /\ Get(last).configured) =>
        \A key \in DOMAIN Get(last).orig :
            (/\ GatewayChanged(Get(last), key)
             /\ \/ Occurrences(Get(last).serviceID, key) = 1
                \/ \A i \in CmdsFor(Get(last).cmds, Get(last).orig[key].address,
                                    Get(last).orig[key].prefixLength) :
                      Get(last).cmds[i].ok)
              => ExactlyOneRemoveThenAdd(Get(last), key)

\* C3 witness: a pass met a changed gateway for a key that is desired once,
\* and its Remove failed.
C3_Witness ==
    /\ IsSome(last) /\ Get(last).configured
    /\ \E key \in DOMAIN Get(last).orig :
          /\ GatewayChanged(Get(last), key)
          /\ Occurrences(Get(last).serviceID, key) = 1
          /\ \E i \in DOMAIN Get(last).cmds :
                Get(last).cmds[i].cmd = "delete" /\ ~Get(last).cmds[i].ok

\* The snapshot has an entry for this destination with this router.
RecordedIn(snapshot, address, prefixLen, router) ==
    \E key \in DOMAIN snapshot :
        /\ snapshot[key].address = address
        /\ snapshot[key].prefixLength = prefixLen
        /\ snapshot[key].router = router
Recorded(serviceID, address, prefixLen, router) ==
    RecordedIn(Snapshot(serviceID), address, prefixLen, router)

\* C4 as stated: every Add reported successful in a pass is recorded, with its
\* router, in the snapshot the pass persists.
C4_Original ==
    (IsSome(last) /\ Get(last).configured) =>
        \A i \in DOMAIN Get(last).cmds :
            (Get(last).cmds[i].cmd = "add" /\ Get(last).cmds[i].ok) =>
                Recorded(Get(last).serviceID, Get(last).cmds[i].address,
                         Get(last).cmds[i].prefixLength, Get(last).cmds[i].router)

FailedAdd(c) == c.cmd = "add" /\ ~c.ok
\* No Add of this destination and router succeeded in the pass.
NoAddSucceeded(cmds, c) ==
    \A j \in Issued(cmds, "add", c.address, c.prefixLength, c.router) : ~cmds[j].ok

\* C5 as stated: a failed Add leaves no entry with its router in the persisted
\* snapshot, and the pass that follows issues the same Add again.
C5_Original ==
    [][ \A s \in ServiceIDs :
          (IsSome(last') /\ Get(last').serviceID = s) =>
             /\ \A i \in DOMAIN Get(last').cmds :
                   FailedAdd(Get(last').cmds[i]) =>
                      ~RecordedIn(Snapshot(s)', Get(last').cmds[i].address,
                                  Get(last').cmds[i].prefixLength,
                                  Get(last').cmds[i].router)
             /\ (IsSome(last) /\ Get(last).serviceID = s) =>
                   \A i \in DOMAIN Get(last).cmds :
                      FailedAdd(Get(last).cmds[i]) =>
                         Issued(Get(last').cmds, "add", Get(last).cmds[i].address,
                                Get(last).cmds[i].prefixLength,
                                Get(last).cmds[i].router) # {} ]_vars

\* C5 amended: the same, for a failed Add that no successful Add of the same
\* destination and router follows or precedes in its pass.
C5_FailedAddRetried ==
    [][ \A s \in ServiceIDs :
          (IsSome(last') /\ Get(last').serviceID = s) =>
             /\ \A i \in DOMAIN Get(last').cmds :
                   (/\ FailedAdd(Get(last').cmds[i])
                    /\ NoAddSucceeded(Get(last').cmds, Get(last').cmds[i])) =>
                      ~RecordedIn(Snapshot(s)', Get(last').cmds[i].address,
                                  Get(last').cmds[i].prefixLength,
                                  Get(last').cmds[i].router)
             /\ (IsSome(last) /\ Get(last).serviceID = s) =>
                   \A i \in DOMAIN Get(last).cmds :
                      (/\ FailedAdd(Get(last).cmds[i])
                       /\ NoAddSucceeded(Get(last).cmds, Get(last).cmds[i])) =>
                         Issued(Get(last').cmds, "add", Get(last).cmds[i].address,
                                Get(last).cmds[i].prefixLength,
                                Get(last).cmds[i].router) # {} ]_vars

\* C5 witness: a pass in which the Add of a route failed, after the old
\* entry of that route had been removed, while another Add succeeded.
C5_Witness ==
    /\ IsSome(last) /\ Get(last).configured
    /\ \E i, j, k \in DOMAIN Get(last).cmds :
          /\ FailedAdd(Get(last).cmds[i])
          /\ NoAddSucceeded(Get(last).cmds, Get(last).cmds[i])
          /\ Get(last).cmds[j].cmd = "delete" /\ Get(last).cmds[j].ok
          /\ Get(last).cmds[j].address = Get(last).cmds[i].address
          /\ Get(last).cmds[k].cmd = "add" /\ Get(last).cmds[k].ok

\* C6: orphan cleanup.  In a pass over a configured service every entry of
\* the snapshot whose key is not desired gets one Remove with its stored
\* router and, if that succeeds, is gone from the persisted snapshot; every
\* entry whose key is desired and whose router is the current gateway gets no
\* kernel command and stays as it was.
C6_OrphanCleanup ==
    (IsSome(last) /\ Get(last).configured) =>
        \A key \in DOMAIN Get(last).orig :
            LET e == Get(last).orig[key]
                s == Get(last).serviceID
                removes == Issued(Get(last).cmds, "delete", e.address,
                                  e.prefixLength, e.router)
            IN  /\ key \notin DesiredKeys(s) =>
                      /\ Cardinality(removes) = 1
                      /\ \A i \in removes :
                            Get(last).cmds[i].ok => key \notin DOMAIN Snapshot(s)
                /\ (key \in DesiredKeys(s) /\ Gateway(s, e.addressFamily) = e.router) =>
                      /\ CmdsFor(Get(last).cmds, e.address, e.prefixLength) = {}
                      /\ key \in DOMAIN Snapshot(s)
                      /\ Snapshot(s)[key] = e

\* C6 witness: one pass removed an orphan and left an unchanged desired entry
\* alone.
C6_Witness ==
    /\ IsSome(last) /\ Get(last).configured
    /\ \E orphan, kept \in DOMAIN Get(last).orig :
          /\ orphan \notin DesiredKeys(Get(last).serviceID)
          /\ orphan \notin DOMAIN Snapshot(Get(last).serviceID)
          /\ kept \in DesiredKeys(Get(last).serviceID)
          /\ Gateway(Get(last).serviceID, Get(last).orig[kept].addressFamily)
                = Get(last).orig[kept].router
          /\ kept \in DOMAIN Snapshot(Get(last).serviceID)

\* The service identifiers a batch of changed keys names.
ServiceOf(key) == CFStringCreateArrayBySeparatingStrings(key, "/")[4]
ExtractedIDs(keys) ==
    {ServiceOf(key) :
       key \in {k \in keys : Len(CFStringCreateArrayBySeparatingStrings(k, "/")) >= 4}}

\* C7: deduplication.  While a batch is handled no service is reconciled
\* twice, and when the handler is about to return every identifier extracted
\* from the batch has been reconciled exactly once and no other has.
C7_Deduplication ==
    inHandler =>
        /\ \A id \in ServiceIDs : CopiesIn(id, calls) <= 1
        /\ services = EmptyBag =>
              \A id \in ServiceIDs :
                  CopiesIn(id, calls) = IF id \in ExtractedIDs(batch) THEN 1 ELSE 0

\* C7 witness: the handler is done with a batch of three keys of one service
\* and a key of another.
C7_Witness ==
    /\ inHandler /\ services = EmptyBag
    /\ Cardinality({key \in batch : ServiceOf(key) = "s1"}) >= 3
    /\ \E key \in batch : ServiceOf(key) = "s2"
    /\ CopiesIn("s1", calls) = 1 /\ CopiesIn("s2", calls) = 1

\* C8: active-set invariant.  Every entry of a service's persisted snapshot
\* is a route whose most recent Add, with the entry's router, was reported
\* successful and which no successful Remove followed.
C8_ActiveSet ==
    \A s \in ServiceIDs :
        \A key \in DOMAIN Snapshot(s) :
            <<Snapshot(s)[key].address, Snapshot(s)[key].prefixLength,
              Snapshot(s)[key].router>> \in ledger[s]

\* C8 witness: a pass over a snapshot whose gateway changed had its Remove
\* fail and its Add succeed, and the snapshot still holds an entry.
C8_Witness ==
    /\ IsSome(last) /\ Get(last).configured
    /\ Snapshot(Get(last).serviceID) # EmptyDict
    /\ \E i, j \in DOMAIN Get(last).cmds :
          /\ i < j
          /\ Get(last).cmds[i].cmd = "delete" /\ ~Get(last).cmds[i].ok
          /\ Get(last).cmds[j].cmd = "add" /\ Get(last).cmds[j].ok
          /\ Get(last).cmds[j].address = Get(last).cmds[i].address

\* C9 as stated: a pass for a service whose desired-route read yields
\* nothing, for want of an entry or because the list is empty, issues no
\* kernel command and leaves the service's snapshot as it was.
C9_Original ==
    [][ \A s \in ServiceIDs :
          (IsSome(last') /\ Get(last').serviceID = s /\ DesiredList(s) = <<>>) =>
             /\ Get(last').cmds = <<>>
             /\ Snapshot(s)' = Snapshot(s) ]_vars

\* C9 amended: a pass for a service that has no entry among the configured
\* static routes issues no kernel command and leaves the stored snapshots as
\* they were.
C9_NoConfigNoOp ==
    [][ \A s \in ServiceIDs :
          (IsSome(last') /\ Get(last').serviceID = s /\ ~Configured(s)) =>
             /\ Get(last').cmds = <<>>
             /\ activeStaticRoutes' = activeStaticRoutes ]_vars

\* C9 witness: a pass ran for a service without an entry, and the snapshot an
\* earlier configuration left behind is still stored.
C9_Witness ==
    /\ IsSome(last) /\ ~Get(last).configured
    /\ ~Configured(Get(last).serviceID)
    /\ Snapshot(Get(last).serviceID) # EmptyDict

\* The tool has just deleted, successfully, a route of this service that the
\* snapshot holds, and no pass has run since.
JustDeleted(serviceID) ==
    /\ IsSome(crud) /\ Get(crud).op = "delete" /\ Get(crud).ret = 0
    /\ Get(crud).serviceID = serviceID
    /\ ~IsSome(last)
    /\ KeyOf(Get(crud).route) \in DOMAIN Snapshot(serviceID)

\* C10 as stated: the pass that follows a successful deletion issues a
\* Remove of the deleted route with the router the snapshot holds for it
\* and, if a Remove succeeds, the snapshot it persists has no entry for it.
C10_Original ==
    [][ \A s \in ServiceIDs :
          (JustDeleted(s) /\ IsSome(last') /\ Get(last').serviceID = s) =>
             LET key == KeyOf(Get(crud).route)
                 e == Snapshot(s)[key]
                 removes == Issued(Get(last').cmds, "delete", e.address,
                                   e.prefixLength, e.router)
             IN  /\ removes # {}
                 /\ (\E i \in removes : Get(last').cmds[i].ok)
                       => key \notin DOMAIN Snapshot(s)' ]_vars

\* C10 amended: the same, when the desired list holds no further occurrence
\* of the deleted route; the Remove is then issued exactly once.
C10_DeletionReconciled ==
    [][ \A s \in ServiceIDs :
          (/\ JustDeleted(s) /\ IsSome(last') /\ Get(last').serviceID = s
           /\ KeyOf(Get(crud).route) \notin DesiredKeys(s)) =>
             LET key == KeyOf(Get(crud).route)
                 e == Snapshot(s)[key]
                 removes == Issued(Get(last').cmds, "delete", e.address,
                                   e.prefixLength, e.router)
             IN  /\ Cardinality(removes) = 1
                 /\ \A i \in removes :
                       Get(last').cmds[i].ok <=> key \notin DOMAIN Snapshot(s)' ]_vars

\* C10 witness: the tool deleted the last desired route of a service, and
\* the pass that followed removed its entry and persisted an empty snapshot.
C10_Witness ==
    /\ IsSome(crud) /\ Get(crud).op = "delete" /\ Get(crud).ret = 0
    /\ IsSome(last) /\ Get(last).serviceID = Get(crud).serviceID
    /\ Get(last).configured
    /\ DesiredList(Get(last).serviceID) = <<>>
    /\ KeyOf(Get(crud).route) \in DOMAIN Get(last).orig
    /\ \E i \in DOMAIN Get(last).cmds :
          /\ Get(last).cmds[i].cmd = "delete" /\ Get(last).cmds[i].ok
          /\ Get(last).cmds[i].address = Get(crud).route.address
    /\ activeStaticRoutes[Get(last).serviceID] = Some(EmptyDict)

\* C11: unresolved gateway.  In a pass over a configured service no Add is
\* issued for a desired route whose family has no resolved gateway, the pass
\* still reaches its persist, and for every desired route whose family has a
\* resolved gateway and whose key the snapshot read by the pass lacks an Add
\* with that gateway is issued.
C11_UnresolvedGateway ==
    (IsSome(last) /\ Get(last).configured) =>
        LET pass == Get(last)
            s == pass.serviceID
        IN  /\ pass.persist
            /\ activeStaticRoutes[s] = Some(pass.active)
            /\ \A d \in Range(DesiredList(s)) :
                  /\ Gateway(s, d.addressFamily) = NULL =>
                        \A i \in CmdsFor(pass.cmds, d.address, d.prefixLength) :
                            pass.cmds[i].cmd # "add"
                  /\ (Gateway(s, d.addressFamily) # NULL
                        /\ KeyOf(d) \notin DOMAIN pass.orig) =>
                        Issued(pass.cmds, "add", d.address, d.prefixLength,
                               Gateway(s, d.addressFamily)) # {}

\* C11 witness: one pass skipped a desired route of a family without gateway
\* and issued the Add of a desired route of the other family, whose key the
\* snapshot lacked.
C11_Witness ==
    /\ IsSome(last) /\ Get(last).configured
    /\ \E d, e \in Range(DesiredList(Get(last).serviceID)) :
          /\ Gateway(Get(last).serviceID, d.addressFamily) = NULL
          /\ CmdsFor(Get(last).cmds, d.address, d.prefixLength) = {}
          /\ Gateway(Get(last).serviceID, e.addressFamily) # NULL
          /\ KeyOf(e) \notin DOMAIN Get(last).orig
          /\ Issued(Get(last).cmds, "add", e.address, e.prefixLength,
                    Gateway(Get(last).serviceID, e.addressFamily)) # {}

\* The value of the first token of this name, NULL if there is none.
RECURSIVE FirstValue(_, _, _)
FirstValue(tokens, n, name) ==
    IF n > Len(tokens) THEN NULL
    ELSE IF tokens[n].name = name THEN tokens[n].value
    ELSE FirstValue(tokens, n + 1, name)

\* C12: gateway resolution, for IPv4 and IPv6 alike.  A record with a Router
\* field resolves to that value whatever its NetworkSignature; one without
\* Router and with a NetworkSignature resolves to the value of the first
\* token named <Family>.Router, and to nothing if no token has that name.
C12_GatewayResolution ==
    (IsSome(arg) /\ IsSome(result) /\ "tokens" \in DOMAIN Get(arg)) =>
        LET input == Get(arg)
        IN  /\ input.Router # NULL => Get(result) = input.Router
            /\ (input.Router = NULL /\ IsSome(input.tokens)) =>
                  Get(result) = FirstValue(Get(input.tokens), 1, input.family \o ".Router")

\* C12 witness: the router of an IPv6 record without Router field was taken
\* from the second token of its signature, the first being the IPv4 router.
C12_Witness ==
    /\ IsSome(arg) /\ IsSome(result) /\ "tokens" \in DOMAIN Get(arg)
    /\ Get(arg).family = "IPv6" /\ Get(arg).Router = NULL
    /\ IsSome(Get(arg).tokens) /\ Len(Get(Get(arg).tokens)) = 2
    /\ Get(Get(arg).tokens)[1].name = "IPv4.Router"
    /\ Get(Get(arg).tokens)[2].name = "IPv6.Router"
    /\ Get(result) = "fe80::1"

\* The command was launched and exited with status 0.
ExitedWithZero(child) ==
    /\ child.spawn = 0
    /\ Get(child.ending) = Exited(0)

\* C13 as stated: the route mutator reports success only if the command
\* exited with status 0 and was not ended by a signal; a command ended by a
\* signal or with a nonzero exit status is reported as a failure.
C13_Original ==
    (IsSome(arg) /\ IsSome(result) /\ "child" \in DOMAIN Get(arg)) =>
        /\ Get(result) => ExitedWithZero(Get(arg).child)
        /\ (Get(arg).child.spawn = 0 /\ Get(Get(arg).child.ending) # Exited(0))
              => ~Get(result)

\* C14 as stated: when the command cannot be launched the route mutator
\* reports a failure.
C14_Original ==
    (IsSome(arg) /\ IsSome(result) /\ "child" \in DOMAIN Get(arg)) =>
        (Get(arg).child.spawn # 0 => ~Get(result))

\* The pass had its turn at this desired route: it issued the Add with the
\* family's gateway, or the snapshot it read held the route with that gateway.
Processed(pass, d) ==
    LET gw == Gateway(pass.serviceID, d.addressFamily)
    IN  \/ Issued(pass.cmds, "add", d.address, d.prefixLength, gw) # {}
        \/ KeyOf(d) \in DOMAIN pass.orig /\ pass.orig[KeyOf(d)].router = gw
\* A key of the snapshot read by the pass that no desired route with a
\* resolved gateway takes out of inactiveStaticRoutes.
Candidate(pass, key) ==
    /\ key \in DOMAIN pass.orig
    /\ \A d \in Range(DesiredList(pass.serviceID)) :
          KeyOf(d) = key => Gateway(pass.serviceID, d.addressFamily) = NULL

\* C15: a failed kernel command never ends the pass.  Whatever commands fail
\* in a pass over a configured service, every desired route with a resolved
\* gateway has its turn, every candidate for removal gets its Remove, the
\* snapshot is persisted and the lock is released.
C15_PassNeverAborted ==
    (IsSome(last) /\ Get(last).configured) =>
        LET pass == Get(last)
        IN  /\ \A d \in ResolvedRoutes(pass.serviceID) : Processed(pass, d)
            /\ \A key \in DOMAIN pass.orig :
                  Candidate(pass, key) =>
                     Cardinality(Issued(pass.cmds, "delete", pass.orig[key].address,
                                        pass.orig[key].prefixLength,
                                        pass.orig[key].router)) = 1
            /\ pass.persist
            /\ activeStaticRoutes[pass.serviceID] = Some(pass.active)
            /\ ~pass.locked

\* C15 witness: the first command of a pass failed, and the pass went on to
\* add another desired route and to remove a route no longer desired.
C15_Witness ==
    /\ IsSome(last) /\ Get(last).configured
    /\ Len(Get(last).cmds) >= 3
    /\ ~Get(last).cmds[1].ok
    /\ \E i, j \in 2..Len(Get(last).cmds) :
          /\ Get(last).cmds[i].cmd = "add"
          /\ Get(last).cmds[i].address # Get(last).cmds[1].address
          /\ Get(last).cmds[j].cmd = "delete"
          /\ Get(last).cmds[j].address # Get(last).cmds[1].address
          /\ \E key \in DOMAIN Get(last).orig :
                /\ Candidate(Get(last), key)
                /\ Get(last).orig[key].address = Get(last).cmds[j].address

\* C16 as stated: a pass in which the preferences could not be locked or the
\* desired routes could not be read issues no kernel command and does not
\* write the snapshot.
C16_Original ==
    (IsSome(last) /\ (~Get(last).db.lock \/ ~Get(last).db.read)) =>
        /\ Get(last).cmds = <<>>
        /\ ~Get(last).persist

\* The tool has just committed a change of the desired routes of this
\* service and returned 0, while the daemon runs.
Committed(serviceID) ==
    /\ started
    /\ IsSome(crud) /\ Get(crud).ret = 0 /\ Get(crud).serviceID = serviceID
    /\ ~IsSome(last)
\* A pass for this service has run since and has read the desired routes as
\* they are now.
Reconciled(serviceID) ==
    /\ IsSome(last) /\ Get(last).serviceID = serviceID
    /\ Get(last).configured = Configured(serviceID)
    /\ Get(last).routes = DesiredList(serviceID)

\* C17: wake-up after mutation.  Every successful add or delete of a route
\* of a service, while the daemon runs, queues a changed key that matches a
\* watched pattern and names the service, and a pass for the service follows
\* that reads the desired routes as committed, whether the commit came
\* between two batches or while the handler was at work on one.
C17_WakeUp ==
    /\ [][ \A s \in ServiceIDs :
             (/\ started /\ staticRoutes' # staticRoutes
              /\ Get(crud').ret = 0 /\ Get(crud').serviceID = s) =>
                \E key \in changedKeys' : Watched(key) /\ ServiceOf(key) = s ]_vars
    /\ \A s \in ServiceIDs : Committed(s) ~> Reconciled(s)

\* C17 witness: while the handler was at work on the key of one commit the
\* tool committed a second route, and the pass of the handler read both.
C17_Witness ==
    /\ inHandler
    /\ batch = {SetupPath("s1", "IPv4")}
    /\ SetupPath("s1", "IPv6") \in changedKeys
    /\ Reconciled("s1")
    /\ Len(Get(last).routes) = 2

\* What the destination parser was given: the text before the first "/" and
\* the text after it, if there is one.
AddressOf(str) == IF strchr(str, "/") = 0 THEN str ELSE SubSeq(str, 1, strchr(str, "/") - 1)
PrefixOf(str) ==
    IF strchr(str, "/") = 0 THEN None ELSE Some(SubSeq(str, strchr(str, "/") + 1, Len(str)))
Width(af) == IF af = "AF_INET" THEN 32 ELSE 128
\* The text is an integer: digits, with or without a sign before them.
Unsigned(text) == IF text # "" /\ SubSeq(text, 1, 1) \in {"+", "-"}
                  THEN SubSeq(text, 2, Len(text)) ELSE text
IsInteger(text) == Unsigned(text) # "" /\ AllDigits(Unsigned(text))
Negative(text) == SubSeq(text, 1, 1) = "-" /\ \E i \in 1..Len(text) : SubSeq(text, i, i) \in
                     {"1", "2", "3", "4", "5", "6", "7", "8", "9"}
\* The integer the digits stand for, or width + 1 when it is more than that.
RECURSIVE UpTo(_, _)
UpTo(digits, width) ==
    IF digits = "" THEN 0
    ELSE LET v == UpTo(SubSeq(digits, 1, Len(digits) - 1), width) * 10
                  + DecimalValue(SubSeq(digits, Len(digits), Len(digits)))
         IN  IF v > width THEN width + 1 ELSE v
Clamped(text, width) ==
    IF Negative(text) THEN 0
    ELSE IF UpTo(Unsigned(text), width) > width THEN width
    ELSE UpTo(Unsigned(text), width)
Parsed == IsSome(arg) /\ IsSome(result) /\ Get(result).ok

\* C18 as stated: for every address that parses, the prefix length is the
\* width of the family (32 or 128) when no "/prefix" was given, and the
\* given integer clamped into 0..width otherwise.
C18_Original ==
    Parsed =>
        LET dest == Get(result).dest
            given == PrefixOf(Get(arg).str)
        IN  /\ ~IsSome(given) => dest.prefix_len = Width(dest.af)
            /\ IsSome(given) /\ IsInteger(Get(given)) =>
                  dest.prefix_len = Clamped(Get(given), Width(dest.af))

\* The bits of an address in network order, the most significant first.
NetBits(ip) ==
    [i \in 1..(8 * Len(ip)) |-> (ip[((i - 1) \div 8) + 1] \div (2 ^ (7 - ((i - 1) % 8)))) % 2]

\* C19: masking.  The parsed address has the first prefix_len bits of the
\* address given, in network order, and zero in all the bits after them,
\* for IPv4 and for IPv6 in each of its four words and on a machine of
\* either byte order; 192.168.5.37/24 gives 192.168.5.0/24 and
\* 2001:db8::1/32 gives 2001:db8::/32.
C19_Masking ==
    Parsed =>
        LET dest == Get(result).dest
            given == NetBits(Get(inet_pton(dest.af, AddressOf(Get(arg).str))))
        IN  /\ dest.prefix_len \in 0..Width(dest.af)
            /\ Len(dest.ip) * 8 = Width(dest.af)
            /\ \A i \in 1..Width(dest.af) :
                  NetBits(dest.ip)[i] = IF i <= dest.prefix_len THEN given[i] ELSE 0
            /\ Get(arg).str = "192.168.5.37/24" =>
                  inet_ntop(dest.af, dest.ip) = "192.168.5.0" /\ dest.prefix_len = 24
            /\ Get(arg).str = "2001:db8::1/32" =>
                  inet_ntop(dest.af, dest.ip) = "2001:db8::" /\ dest.prefix_len = 32

\* C19 witness: an IPv6 address of ones with a prefix that ends inside the
\* third word, parsed on a little-endian machine.
C19_Witness ==
    /\ Parsed
    /\ Get(arg) = [str |-> "FFFF:ffff:ffff:ffff:ffff:ffff:ffff:ffff/77", bigEndian |-> FALSE]
    /\ Get(result).dest.ip = <<255, 255, 255, 255, 255, 255, 255, 255,
                               255, 248, 0, 0, 0, 0, 0, 0>>

\* Why a run of the tool has to fail: the address does not parse, no
\* network service has the name, or (for delete) the list of the service
\* has no route with the address and prefix length asked for.
BadAddress(str) == inet_pton4(AddressOf(str)) = None /\ inet_pton6(AddressOf(str)) = None
UnknownService(service_name) ==
    \A s \in DOMAIN NetworkServices : CaseFold(NetworkServices[s]) # CaseFold(service_name)
NamedService(service_name) ==
    CHOOSE s \in DOMAIN NetworkServices : CaseFold(NetworkServices[s]) = CaseFold(service_name)
Asked(str) == UNION {{RouteDict(out.dest) : out \in parse_dest(str, b)} : b \in BOOLEAN}
NoMatchingRoute(str, service_name) ==
    \A route \in Range(DesiredList(NamedService(service_name))), asked \in Asked(str) :
       ~(route.address = asked.address /\ route.prefixLength = asked.prefixLength)
MustFail(command, str, service_name) ==
    \/ BadAddress(str)
    \/ UnknownService(service_name)
    \/ command = "delete" /\ NoMatchingRoute(str, service_name)

\* C20: a failure leaves no partial state.  A run of add or delete with an
\* address that does not parse, with the name of no service, or (delete)
\* with no matching route in the list exits with 1 and leaves the desired
\* routes as they were; a run that exits with 0 had none of these and the
\* list of the service is the old one with the route appended (add) or with
\* one route less (delete).
C20_NoPartialState ==
    [][ \A command \in {"add", "delete"}, str \in ToolAddresses, service_name \in ServiceNames :
          arg' = Some([command |-> command, str |-> str, service_name |-> service_name]) =>
             /\ result' \in {Some(0), Some(1)}
             /\ MustFail(command, str, service_name) =>
                   result' = Some(1) /\ staticRoutes' = staticRoutes
             /\ result' = Some(0) =>
                   /\ ~MustFail(command, str, service_name)
                   /\ \E s \in ServiceIDs, asked \in Asked(str) :
                         /\ s = NamedService(service_name)
                         /\ command = "add" =>
                               DesiredList(s)' = Append(DesiredList(s), asked)
                         /\ command = "delete" =>
                               /\ Len(DesiredList(s)') = Len(DesiredList(s)) - 1
                               /\ Occurrences(s, KeyOf(asked))'
                                     = Occurrences(s, KeyOf(asked)) - 1 ]_vars

\* C20 witness: with 10.0.0.0/24 in the list of s1, a delete of fd00::/8
\* found no such route, exited with 1 and left the list alone.
C20_Witness ==
    /\ arg = Some([command |-> "delete", str |-> "fd00::1/8", service_name |-> "ETHERNET"])
    /\ result = Some(1)
    /\ IsSome(crud) /\ Get(crud).op = "delete" /\ Get(crud).route = RouteDict(Dest6)
    /\ DesiredList("s1") = <<RouteDict(Dest4)>>

\* The keys in the store that match a watched pattern, and the services
\* they name.
MatchingKeys == {key \in StateKeyList \cup SetupKeyList : Watched(key)}
HasMatchingKey(serviceID) == \E key \in MatchingKeys : ServiceOf(key) = serviceID

\* C21 as stated: startup seeding.  When the handler that main() calls
\* returns, that is before the daemon first waits for a change, it has
\* called the pass once for every service identifier with a key in the store
\* that matches a watched pattern, and for no other.
C21_Original ==
    [][ (inHandler /\ ~inHandler' /\ changedKeys = {} /\ batch = StateKeyList) =>
           \A s \in ServiceIDs :
              CopiesIn(s, calls) = IF HasMatchingKey(s) THEN 1 ELSE 0 ]_vars

\* C22 as stated: in a pass over a service with desired routes, an entry of
\* the snapshot whose family has no gateway gets no Remove and is still in
\* the snapshot the pass persists.
C22_Original ==
    (IsSome(last) /\ Get(last).configured /\ Get(last).routes # <<>>) =>
        \A key \in DOMAIN Get(last).orig :
            LET e == Get(last).orig[key]
                s == Get(last).serviceID
            IN  Gateway(s, e.addressFamily) = NULL =>
                   /\ Issued(Get(last).cmds, "delete", e.address, e.prefixLength,
                             e.router) = {}
                   /\ key \in DOMAIN Snapshot(s)
                   /\ Snapshot(s)[key] = e

\* C22: an entry of a family without gateway.  In a pass over a service with
\* desired routes, an entry of the snapshot whose family has no gateway is
\* not reconfirmed: it gets exactly one Remove, with its stored router, and
\* no Add; it is gone from the persisted snapshot if the Remove succeeded
\* and is there as it was if the Remove failed.
C22_GatewayAbsent ==
    (IsSome(last) /\ Get(last).configured /\ Get(last).routes # <<>>) =>
        \A key \in DOMAIN Get(last).orig :
            LET e == Get(last).orig[key]
                s == Get(last).serviceID
                cmds == Get(last).cmds
                removes == Issued(cmds, "delete", e.address, e.prefixLength, e.router)
            IN  Gateway(s, e.addressFamily) = NULL =>
                   /\ Cardinality(removes) = 1
                   /\ CmdsFor(cmds, e.address, e.prefixLength) = removes
                   /\ \A i \in removes :
                         IF cmds[i].ok THEN key \notin DOMAIN Snapshot(s)
                         ELSE key \in DOMAIN Snapshot(s) /\ Snapshot(s)[key] = e

\* C22 witness: the gateway of IPv4 is gone, the route of the entry is still
\* desired, and the pass removed the entry.
C22_Witness ==
    /\ IsSome(last) /\ Get(last).configured
    /\ \E key \in DOMAIN Get(last).orig :
          /\ key \in DesiredKeys(Get(last).serviceID)
          /\ Gateway(Get(last).serviceID, Get(last).orig[key].addressFamily) = NULL
          /\ key \notin DOMAIN Snapshot(Get(last).serviceID)
          /\ Len(Get(last).cmds) = 1 /\ Get(last).cmds[1].ok

\* C23: persist boundary.  A pass that finds a list of desired routes for
\* the service writes the snapshot once: after all its kernel commands, with
\* the working snapshot as they left it, and the store then holds that value.
\* It does so too when it issued no command and changed nothing.
C23_PersistBoundary ==
    (IsSome(last) /\ Get(last).configured) =>
        LET pass == Get(last)
        IN  /\ Len(pass.written) = 1
            /\ pass.written[1].after = Len(pass.cmds)
            /\ pass.written[1].value = pass.active
            /\ activeStaticRoutes[pass.serviceID] = Some(pass.written[1].value)
            /\ pass.cmds = <<>> => pass.written[1].value = pass.orig

\* C23 witness: a pass over a service that had no snapshot issued no command
\* and wrote an empty snapshot.
C23_Witness ==
    /\ IsSome(last) /\ Get(last).configured
    /\ Get(last).routes # <<>>
    /\ Get(last).cmds = <<>>
    /\ Get(last).orig = EmptyDict
    /\ activeStaticRoutes[Get(last).serviceID] = Some(EmptyDict)

\* The lock over a list of calls on the preferences: whether the process
\* holds it after the first n calls, and whether the calls take and release
\* it in turn and end with it released.
Held(prefs, n) ==
    \E i \in 1..n : /\ prefs[i] = PrefsLock
                    /\ \A j \in (i + 1)..n : prefs[j] # PrefsUnlock
LockCalls(prefs) == Cardinality({i \in DOMAIN prefs : prefs[i] = PrefsLock})
Scoped(prefs) ==
    /\ ~Held(prefs, Len(prefs))
    /\ \A i \in DOMAIN prefs :
          /\ prefs[i] = PrefsLock => ~Held(prefs, i - 1)
          /\ prefs[i] = PrefsUnlock => Held(prefs, i - 1)

\* C24: lock balance.  Every pass calls SCPreferencesLock once and has
\* unlocked when it returns, whichever way it returns; every run of add,
\* delete or a list operation of the tool locks at most once and has
\* unlocked when it returns.  No process keeps the lock after an operation.
C24_LockBalance ==
    /\ IsSome(last) =>
          /\ LockCalls(Get(last).prefs) = 1
          /\ Scoped(Get(last).prefs)
          /\ ~Get(last).locked
    /\ IsSome(crud) =>
          /\ LockCalls(Get(crud).prefs) <= 1
          /\ Scoped(Get(crud).prefs)
          /\ (Get(crud).serviceID # NULL \/ Get(crud).op = "list-services"
                \/ Get(crud).prefs[1] = PrefsLock) => LockCalls(Get(crud).prefs) = 1

\* C24 witness: a delete for a service without any configured routes
\* returned 1 from inside the locked part, unlocked.
C24_Witness ==
    /\ IsSome(crud) /\ Get(crud).op = "delete" /\ Get(crud).ret = 1
    /\ Get(crud).serviceID = "s1"
    /\ ~IsSome(staticRoutes)
    /\ LockCalls(Get(crud).prefs) = 1
    /\ Get(crud).prefs[Len(Get(crud).prefs)] = PrefsUnlock

\* C25 as stated: every read of the preferences by a pass or by the tool
\* (the desired routes, the list of services) is made while the process
\* holds the lock.
ReadsUnderLock(prefs, acquired) ==
    \A i \in DOMAIN prefs :
       prefs[i].call = "SCPreferencesGetValue" => acquired /\ Held(prefs, i - 1)
C25_Original ==
    /\ IsSome(last) => ReadsUnderLock(Get(last).prefs, Get(last).db.lock)
    /\ IsSome(crud) => ReadsUnderLock(Get(crud).prefs, TRUE)

\* The Removes a pass issued for the route of a snapshot entry, and the
\* first of them failing.
RemovesOf(pass, key) ==
    {i \in CmdsFor(pass.cmds, pass.orig[key].address, pass.orig[key].prefixLength) :
       pass.cmds[i].cmd = "delete"}
FirstRemoveFailed(pass, key) ==
    \E i \in RemovesOf(pass, key) :
       /\ ~pass.cmds[i].ok
       /\ \A j \in RemovesOf(pass, key) : i <= j

OrphanRemoveFailed(pass, key) ==
    /\ pass.configured
    /\ key \in DOMAIN pass.orig
    /\ key \notin DesiredKeys(pass.serviceID)
    /\ \E i \in Issued(pass.cmds, "delete", pass.orig[key].address,
                       pass.orig[key].prefixLength, pass.orig[key].router) :
          ~pass.cmds[i].ok

\* C27: a failed removal of an orphan is retried.  An entry whose key is not
\* desired and whose Remove failed is in the snapshot the pass persists, as
\* it was stored, and the pass of the service that follows issues the Remove
\* with the stored router again.
C27_OrphanRetried ==
    [][ /\ (IsSome(last') /\ Get(last').cmds # <<>>) =>
              \A key \in DOMAIN Get(last').orig :
                 OrphanRemoveFailed(Get(last'), key) =>
                    LET after == activeStaticRoutes'[Get(last').serviceID]
                    IN  /\ Get(last').persist
                        /\ IsSome(after)
                        /\ key \in DOMAIN Get(after)
                        /\ Get(after)[key] = Get(last').orig[key]
        /\ (/\ IsSome(last) /\ IsSome(last')
            /\ Get(last).serviceID = Get(last').serviceID) =>
              \A key \in DOMAIN Get(last).orig :
                 OrphanRemoveFailed(Get(last), key) =>
                    Issued(Get(last').cmds, "delete", Get(last).orig[key].address,
                           Get(last).orig[key].prefixLength,
                           Get(last).orig[key].router) # {} ]_vars

\* C27 witness: the Remove of an orphan failed in a pass that removed another
\* entry, and the orphan is still in the snapshot.
C27_Witness ==
    /\ IsSome(last)
    /\ \E key, other \in DOMAIN Get(last).orig :
          /\ OrphanRemoveFailed(Get(last), key)
          /\ key \in DOMAIN Snapshot(Get(last).serviceID)
          /\ other \notin DOMAIN Snapshot(Get(last).serviceID)

\* The entries a pass has to remove: those whose key is not desired with a
\* resolved gateway, and those stored with another router than the gateway.
ToRemove(pass) ==
    {key \in DOMAIN pass.orig :
       \/ key \notin DOMAIN TargetSnapshot(pass.serviceID)
       \/ TargetSnapshot(pass.serviceID)[key].router # pass.orig[key].router}
\* The keys a pass has to add: those desired with a resolved gateway that
\* are not stored with that gateway.
ToAdd(pass) ==
    {key \in DOMAIN TargetSnapshot(pass.serviceID) :
       ~(/\ key \in DOMAIN pass.orig
         /\ pass.orig[key].router = TargetSnapshot(pass.serviceID)[key].router)}

\* C28: minimal delta.  A pass over a configured service in which every
\* kernel command succeeds issues one Remove, with the stored router, for
\* each entry to remove, one Add, with the gateway, for each key to add, and
\* nothing else; a desired route stored with the gateway gets no command.
C28_MinimalDelta ==
    (IsSome(last) /\ Get(last).configured /\ AllOK(Get(last).cmds)) =>
        LET pass == Get(last)
            target == TargetSnapshot(pass.serviceID)
        IN  /\ \A key \in ToRemove(pass) :
                  Cardinality(Issued(pass.cmds, "delete", pass.orig[key].address,
                                     pass.orig[key].prefixLength,
                                     pass.orig[key].router)) = 1
            /\ \A key \in ToAdd(pass) :
                  Cardinality(Issued(pass.cmds, "add", target[key].address,
                                     target[key].prefixLength,
                                     target[key].router)) = 1
            /\ Len(pass.cmds) = Cardinality(ToRemove(pass)) + Cardinality(ToAdd(pass))
            /\ \A key \in (DOMAIN pass.orig) \ ToRemove(pass) :
                  CmdsFor(pass.cmds, pass.orig[key].address,
                          pass.orig[key].prefixLength) = {}

\* C28 witness: a pass in which every command succeeded removed an entry
\* that is to go, replaced one whose router changed, and left none behind.
C28_Witness ==
    /\ IsSome(last) /\ Get(last).configured /\ AllOK(Get(last).cmds)
    /\ \E gone, changed \in ToRemove(Get(last)) :
          /\ gone \notin DOMAIN TargetSnapshot(Get(last).serviceID)
          /\ changed \in ToAdd(Get(last))
    /\ Len(Get(last).cmds) = 3


\* The calls that change the preferences.
PrefsWrites ==
    {"SCPreferencesSetValue", "SCPreferencesRemoveValue", "SCPreferencesAddValue",
     "SCPreferencesCommitChanges", "SCPreferencesApplyChanges"}
\* The step is a pass of the daemon; the step is a run of the tool.
PassStep == IsSome(last') /\ last' # last
ToolStep == ~IsSome(last') /\ IsSome(crud')

\* C29: ownership.  A pass leaves the desired routes in the preferences as
\* they are and makes no call that changes the preferences; a run of the
\* tool (add, delete or list) leaves the snapshot of every service as it is;
\* a snapshot changes only in a pass, and only that of the pass's service.
C29_Ownership ==
    [][ /\ PassStep =>
              /\ staticRoutes' = staticRoutes
              /\ \A i \in DOMAIN Get(last').prefs :
                    Get(last').prefs[i].call \notin PrefsWrites
        /\ ToolStep => activeStaticRoutes' = activeStaticRoutes
        /\ \A s \in ServiceIDs :
              activeStaticRoutes'[s] # activeStaticRoutes[s] =>
                 PassStep /\ Get(last').serviceID = s ]_vars

\* C29 witness: the tool deleted a route of a service that had a snapshot,
\* and the pass that followed rewrote the snapshot while the desired routes
\* stayed as the tool left them.
C29_Witness ==
    /\ IsSome(crud) /\ Get(crud).op = "delete" /\ Get(crud).ret = 0
    /\ IsSome(last) /\ Get(last).serviceID = Get(crud).serviceID
    /\ Get(last).configured
    /\ Get(last).orig # EmptyDict
    /\ Get(last).active # Get(last).orig
    /\ Snapshot(Get(last).serviceID) = Get(last).active
    /\ DesiredList(Get(last).serviceID) = Get(last).routes


\* The path has the form .../Service/<id>/...: its third component is
\* "Service" and its fourth the identifier.
Components(key) == CFStringCreateArrayBySeparatingStrings(key, "/")
HasServiceShape(key) == Len(Components(key)) >= 4 /\ Components(key)[3] = "Service"
ShapedIDs(keys) == {Components(key)[4] : key \in {k \in keys : HasServiceShape(k)}}

BareFamilies(serviceID) ==
    {f \in {"IPv4", "IPv6"} : NullSignature(serviceState[serviceID][f])}

\* C32 as stated: record with neither field.  In a pass over a configured
\* service with such a record the family has no gateway (no Add for its
\* routes), and the pass runs to its end: the desired routes of the other
\* family are processed, the snapshot is written and the preferences are
\* unlocked.
C32_Original ==
    (IsSome(last) /\ Get(last).configured /\ BareFamilies(Get(last).serviceID) # {}) =>
        LET pass == Get(last)
            s == pass.serviceID
        IN  /\ \A d \in Range(DesiredList(s)) :
                  d.addressFamily \in BareFamilies(s) =>
                     \A i \in CmdsFor(pass.cmds, d.address, d.prefixLength) :
                         pass.cmds[i].cmd # "add"
            /\ \A d \in ResolvedRoutes(s) : Processed(pass, d)
            /\ pass.persist
            /\ Len(pass.written) = 1
            /\ activeStaticRoutes[s] = Some(pass.active)
            /\ ~pass.locked
            /\ pass.prefs[Len(pass.prefs)] = PrefsUnlock


\* The daemon is back in CFRunLoopRun with nothing queued for it.
Waiting == started /\ ~inHandler /\ changedKeys = {}

\* C33: quiescence.  The write of a snapshot queues no key for the daemon:
\* no step of the daemon adds to the changed keys.  So, once the keys that
\* changed outside have been delivered, the daemon runs its passes and goes
\* back to waiting, for good.
C33_Quiescence ==
    /\ [][/\ changedKeys' \subseteq changedKeys
          /\ \A s \in ServiceIDs : ~Watched(DynamicKey(s))]_vars
    /\ <>[]Waiting

\* C33 witness: the daemon is waiting again after a pass that issued
\* commands and wrote the snapshot of its service.
C33_Witness ==
    /\ Waiting
    /\ IsSome(last) /\ Get(last).configured
    /\ Get(last).cmds # <<>> /\ Get(last).persist
    /\ activeStaticRoutes[Get(last).serviceID] = Some(Get(last).active)


\* C34: isolation of the services.  A pass for a service works on the
\* snapshot stored for that service, and leaves the snapshot of every other
\* service as it is, whatever the kernel commands return.
C34_Isolation ==
    [][ PassStep =>
          LET pass == Get(last')
          IN  /\ pass.orig = Snapshot(pass.serviceID)
              /\ \A t \in ServiceIDs \ {pass.serviceID} :
                    activeStaticRoutes'[t] = activeStaticRoutes[t] ]_vars

\* C34 witness: a pass removed the entry of one service, with a command
\* that succeeded, while another service holds an entry for the same
\* destination.
C34_Witness ==
    /\ IsSome(last) /\ Get(last).configured
    /\ \E i \in DOMAIN Get(last).cmds :
          Get(last).cmds[i].cmd = "delete" /\ Get(last).cmds[i].ok
    /\ Get(last).orig # EmptyDict
    /\ Snapshot(Get(last).serviceID) = EmptyDict
    /\ \E t \in ServiceIDs \ {Get(last).serviceID} :
          DOMAIN Snapshot(t) = DOMAIN Get(last).orig


\* The kernel commands of a pass with what each returned, as a bag, each
\* under the service of the pass.
CommandBag(pass) ==
    LET tagged == [i \in DOMAIN pass.cmds |->
                     [serviceID |-> pass.serviceID, command |-> pass.cmds[i]]]
    IN  [c \in Range(tagged) |-> Cardinality({i \in DOMAIN tagged : tagged[i] = c})]
\* What a batch can come to when its services are reconciled in this order:
\* the snapshots of all services at the end, and the commands issued.
RECURSIVE InOrder(_, _, _, _)
InOrder(order, n, store, issued) ==
    IF n > Len(order) THEN {[store |-> store, issued |-> issued]}
    ELSE UNION {InOrder(order, n + 1, StoreAfter(store, pass),
                        issued (+) CommandBag(pass)) :
                  pass \in SetupRoutes(order[n], DatabaseOK, store)}

\* C31: independence of the order.  From every state, reconciling s1 and
\* then s2 and reconciling s2 and then s1 can come to the same ends: the
\* same snapshots of all services with the same commands, each returning the
\* same, in each service.
C31_OrderIndependence ==
    InOrder(<<"s1", "s2">>, 1, activeStaticRoutes, EmptyBag)
        = InOrder(<<"s2", "s1">>, 1, activeStaticRoutes, EmptyBag)

\* C31 witness: the handler is done with a batch that named both services;
\* the last pass issued commands and the pass of the other service had
\* emptied that service's snapshot.
C31_Witness ==
    /\ inHandler /\ services = EmptyBag
    /\ CopiesIn("s1", calls) = 1 /\ CopiesIn("s2", calls) = 1
    /\ IsSome(last) /\ Get(last).cmds # <<>>
    /\ \E t \in ServiceIDs \ {Get(last).serviceID} :
          activeStaticRoutes[t] = Some(EmptyDict)

====
